---- MODULE Spec2Model ----
(***************************************************************************)
(* The request pipeline of src/server.js: the request cache and its sweep, *)
(* the generation retry loop with its fallback synthesizer, the slide      *)
(* enhancer with its structural fallback, and the batch and speaker-notes  *)
(* routes.                                                                 *)
(*                                                                         *)
(* JavaScript values are tagged records.  A JavaScript string is a         *)
(* sequence of tokens: every markup tag "<...>" is one token, " " and "\n" *)
(* are the whitespace tokens, "." and "*" are one-character tokens, and    *)
(* every other token is a chunk of characters holding none of              *)
(* '<', '>', '.', '*' or whitespace.  The string operations below (tag     *)
(* stripping, trim, split, includes, length) are exact on that             *)
(* representation.                                                         *)
(***************************************************************************)
EXTENDS Integers, Sequences, FiniteSets, TLC

VARIABLES now, requestCache, reqs, upstreamOk

vars == <<now, requestCache, reqs, upstreamOk>>

(***************************************************************************)
(* Bounds of the model.                                                    *)
(***************************************************************************)
MaxReqs == 2
MaxTicks == 3
MaxSlideCount == 5
MaxBatch == 3

(***************************************************************************)
(* Program constants.                                                      *)
(***************************************************************************)
CACHE_DURATION == 30 * 60 * 1000
MaxAttempts == 3

(***************************************************************************)
(* JavaScript values.                                                      *)
(***************************************************************************)
Undefined == [t |-> "undefined"]
Null == [t |-> "null"]
Str(s) == [t |-> "string", s |-> s]
Num(n) == [t |-> "number", n |-> n]
Bool(b) == [t |-> "boolean", b |-> b]
Arr(a) == [t |-> "array", a |-> a]
Obj(o) == [t |-> "object", o |-> o]

Truthy(v) ==
  CASE v.t = "undefined" -> FALSE
    [] v.t = "null" -> FALSE
    [] v.t = "string" -> v.s # <<>>
    [] v.t = "number" -> v.n # 0
    [] v.t = "boolean" -> v.b
    [] OTHER -> TRUE

\* Property read o.f of an object: undefined when the property is absent.
Get(v, f) == IF f \in DOMAIN v.o THEN v.o[f] ELSE Undefined

\* o.f where o may be any value: reading a property of null or undefined throws.
CanRead(v) == v.t \notin {"undefined", "null"}
Prop(v, f) == IF v.t = "object" THEN Get(v, f) ELSE Undefined

IsString(v) == v.t = "string"

\* Template-literal conversion `${v}`.
ToStr(v) ==
  CASE v.t = "string" -> v.s
    [] v.t = "number" -> <<ToString(v.n)>>
    [] v.t = "undefined" -> <<"undefined">>
    [] v.t = "null" -> <<"null">>
    [] v.t = "boolean" -> IF v.b THEN <<"true">> ELSE <<"false">>
    [] OTHER -> <<"[object Object]">>

(***************************************************************************)
(* Strings as token sequences.                                             *)
(***************************************************************************)
Tags == {"<h1>", "</h1>", "<h2>", "</h2>", "<p>", "</p>", "<ul>", "</ul>",
         "<ol>", "</ol>", "<li>", "</li>", "<strong>", "</strong>",
         "<em>", "</em>"}
Whitespace == {" ", "\n"}

RECURSIVE Words(_)
Words(ws) ==
  IF Len(ws) <= 1 THEN ws ELSE <<Head(ws), " ">> \o Words(Tail(ws))

RECURSIVE StrLen(_)
StrLen(s) == IF s = <<>> THEN 0 ELSE Len(Head(s)) + StrLen(Tail(s))

\* s.includes(tok) for a token that is a tag.
Includes(s, tok) == \E i \in 1..Len(s) : s[i] = tok

\* s.includes('<')
IncludesLt(s) == \E i \in 1..Len(s) : s[i] \in Tags

\* s.replace(/<[^>]*>/g, '')
StripTags(s) == SelectSeq(s, LAMBDA tok : tok \notin Tags)

RECURSIVE TrimLeft(_)
TrimLeft(s) ==
  IF s # <<>> /\ Head(s) \in Whitespace THEN TrimLeft(Tail(s)) ELSE s

RECURSIVE TrimRight(_)
TrimRight(s) ==
  IF s # <<>> /\ s[Len(s)] \in Whitespace
  THEN TrimRight(SubSeq(s, 1, Len(s) - 1)) ELSE s

Trim(s) == TrimRight(TrimLeft(s))

\* s.split(/\s+/).length : the number of maximal runs of non-whitespace,
\* plus the empty piece a leading and a trailing whitespace run each leave;
\* "".split(/\s+/) is [""].
SplitWsLength(s) ==
  IF s = <<>> THEN 1
  ELSE Cardinality({i \in 1..Len(s) :
                      /\ s[i] \notin Whitespace
                      /\ (i = 1 \/ s[i - 1] \in Whitespace)})
       + (IF s[1] \in Whitespace THEN 1 ELSE 0)
       + (IF s[Len(s)] \in Whitespace THEN 1 ELSE 0)

Min(S) == CHOOSE m \in S : \A n \in S : m <= n

\* The closing "**" of /\*\*(.*?)\*\*/ opened at i: '.' matches no newline and
\* the lazy quantifier takes the nearest close.
BoldCloses(s, i) ==
  {j \in (i + 2)..(Len(s) - 1) :
     /\ s[j] = "*" /\ s[j + 1] = "*"
     /\ \A k \in (i + 2)..(j - 1) : s[k] # "\n"}

RECURSIVE ReplaceBoldFrom(_, _)
ReplaceBoldFrom(s, i) ==
  IF i > Len(s) THEN <<>>
  ELSE IF i < Len(s) /\ s[i] = "*" /\ s[i + 1] = "*" /\ BoldCloses(s, i) # {}
  THEN LET j == Min(BoldCloses(s, i))
       IN <<"<strong>">> \o SubSeq(s, i + 2, j - 1) \o <<"</strong>">>
            \o ReplaceBoldFrom(s, j + 2)
  ELSE <<s[i]>> \o ReplaceBoldFrom(s, i + 1)

\* s.replace(/\*\*(.*?)\*\*/g, '<strong>$1</strong>')
ReplaceBold(s) == ReplaceBoldFrom(s, 1)

ItalicCloses(s, i) ==
  {j \in (i + 1)..Len(s) :
     /\ s[j] = "*"
     /\ \A k \in (i + 1)..(j - 1) : s[k] # "\n"}

RECURSIVE ReplaceItalicFrom(_, _)
ReplaceItalicFrom(s, i) ==
  IF i > Len(s) THEN <<>>
  ELSE IF s[i] = "*" /\ ItalicCloses(s, i) # {}
  THEN LET j == Min(ItalicCloses(s, i))
       IN <<"<em>">> \o SubSeq(s, i + 1, j - 1) \o <<"</em>">>
            \o ReplaceItalicFrom(s, j + 1)
  ELSE <<s[i]>> \o ReplaceItalicFrom(s, i + 1)

\* s.replace(/\*(.*?)\*/g, '<em>$1</em>')
ReplaceItalic(s) == ReplaceItalicFrom(s, 1)

\* s.split('.')
RECURSIVE SplitDot(_)
SplitDot(s) ==
  IF \A i \in 1..Len(s) : s[i] # "."
  THEN <<s>>
  ELSE LET i == Min({k \in 1..Len(s) : s[k] = "."})
       IN <<SubSeq(s, 1, i - 1)>> \o SplitDot(SubSeq(s, i + 1, Len(s)))

RECURSIVE Concat(_)
Concat(ss) == IF ss = <<>> THEN <<>> ELSE Head(ss) \o Concat(Tail(ss))

\* parseInt(v): the value is converted to a string, leading whitespace is
\* skipped and the longest numeral prefix is read; NaN when there is none.
Numerals == [n \in -20..20 |-> ToString(n)]
ParseIntText(v) == TrimLeft(ToStr(v))
ParseIntIsNaN(v) ==
  \/ ParseIntText(v) = <<>>
  \/ \A n \in DOMAIN Numerals : Numerals[n] # Head(ParseIntText(v))
ParseInt(v) == CHOOSE n \in DOMAIN Numerals : Numerals[n] = Head(ParseIntText(v))

(***************************************************************************)
(* The cache key (src/server.js, createCacheKey).                          *)
(***************************************************************************)
\* JSON.stringify of a primitive.  The tokens of the model hold no character
\* that JSON escapes, so a string is written between quotes as it is.
JSONStringifyValue(v) ==
  CASE v.t = "string" -> <<"\"">> \o v.s \o <<"\"">>
    [] v.t = "number" -> <<ToString(v.n)>>
    [] v.t = "boolean" -> IF v.b THEN <<"true">> ELSE <<"false">>
    [] v.t = "null" -> <<"null">>

\* JSON.stringify of an object literal given as its <<name, value>> pairs in
\* source order: a property whose value is undefined is left out.
RECURSIVE JSONMembers(_, _)
JSONMembers(pairs, first) ==
  IF pairs = <<>> THEN <<>>
  ELSE LET p == Head(pairs)
       IN IF p[2].t = "undefined"
          THEN JSONMembers(Tail(pairs), first)
          ELSE (IF first THEN <<>> ELSE <<",">>)
                 \o <<"\"" \o p[1] \o "\":">> \o JSONStringifyValue(p[2])
                 \o JSONMembers(Tail(pairs), FALSE)

JSONStringifyObject(pairs) == <<"{">> \o JSONMembers(pairs, TRUE) \o <<"}">>

\* data.additionalInfo || ''
OrEmpty(v) == IF Truthy(v) THEN v ELSE Str(<<>>)

\* createCacheKey without the duration.
createCacheKeyNoDuration(data) ==
  JSONStringifyObject(<<
    <<"topic", Get(data, "topic")>>,
    <<"audience", Get(data, "audience")>>,
    <<"slideCount", Get(data, "slideCount")>>,
    <<"additionalInfo", OrEmpty(Get(data, "additionalInfo"))>> >>)

createCacheKey(data) ==
  JSONStringifyObject(<<
    <<"topic", Get(data, "topic")>>,
    <<"audience", Get(data, "audience")>>,
    <<"slideCount", Get(data, "slideCount")>>,
    <<"duration", Get(data, "duration")>>,
    <<"additionalInfo", OrEmpty(Get(data, "additionalInfo"))>> >>)

\* EnhancedKey without the suffix.
EnhancedKeyNoSuffix(data) == createCacheKey(data)

\* createCacheKey(req.body) + '_enhanced'
EnhancedKey(data) == createCacheKey(data) \o <<"_enhanced">>

(***************************************************************************)
(* The fallback presentation (src/server.js, createFallbackPresentation).  *)
(***************************************************************************)
\* TitleSlide with the duration worked into the title.
TitleSlideTimed(formData) ==
  Obj([title |-> Str(ToStr(Get(formData, "topic")) \o <<" ">>
                     \o ToStr(Get(formData, "duration"))),
       content |-> Str(<<"<h1>">> \o ToStr(Get(formData, "topic")) \o <<"</h1>", "<p>">>
                       \o Words(<<"A", "comprehensive", "presentation", "for">>)
                       \o <<" ">> \o ToStr(Get(formData, "audience")) \o <<"</p>">>),
       type |-> Str(<<"title">>)])

TitleSlide(formData) ==
  Obj([title |-> Get(formData, "topic"),
       content |-> Str(<<"<h1>">> \o ToStr(Get(formData, "topic")) \o <<"</h1>", "<p>">>
                       \o Words(<<"A", "comprehensive", "presentation", "for">>)
                       \o <<" ">> \o ToStr(Get(formData, "audience")) \o <<"</p>">>),
       type |-> Str(<<"title">>)])

\* ContentSlide numbered by the loop index itself.
ContentSlideByIndex(formData, i) ==
  Obj([title |-> Str(Words(<<"Key", "Point", ToString(i)>>)),
       content |-> Str(<<"<h2>">> \o Words(<<"Key", "Point", ToString(i)>>)
                       \o <<"</h2>">>),
       type |-> Str(<<"content">>)])

\* The slide pushed by the loop body for loop index i.
ContentSlide(formData, i) ==
  Obj([title |-> Str(Words(<<"Key", "Point", ToString(i - 1)>>)),
       content |-> Str(<<"<h2>">> \o Words(<<"Key", "Point", ToString(i - 1)>>)
                       \o <<"</h2>", "<ul>", "<li>">>
                       \o Words(<<"Important", "information", "about">>) \o <<" ">>
                       \o ToStr(Get(formData, "topic")) \o <<"</li>", "<li>">>
                       \o Words(<<"Supporting", "details", "and", "examples">>)
                       \o <<"</li>", "<li>">>
                       \o Words(<<"Relevant", "data", "and", "insights">>)
                       \o <<"</li>", "</ul>">>),
       type |-> Str(<<"content">>)])

ConclusionSlide ==
  Obj([title |-> Str(Words(<<"Thank", "You">>)),
       content |-> Str(<<"<h1>">> \o Words(<<"Thank", "You">>) \o <<"</h1>", "<p>">>
                       \o Words(<<"Questions", "&", "Discussion">>) \o <<"</p>">>),
       type |-> Str(<<"conclusion">>)])

\* ContentIndexes with the loop bound i <= slideCount.
ContentIndexesInclusive(formData) ==
  LET sc == Get(formData, "slideCount")
  IN IF ParseIntIsNaN(sc) THEN {} ELSE 2..ParseInt(sc)

\* for (let i = 2; i < slideCount; i++): no iteration when slideCount is NaN.
ContentIndexes(formData) ==
  LET sc == Get(formData, "slideCount")
  IN IF ParseIntIsNaN(sc) THEN {} ELSE 2..(ParseInt(sc) - 1)

createFallbackPresentation(formData) ==
  LET n == Cardinality(ContentIndexes(formData))
  IN Obj([title |-> Get(formData, "topic"),
          subtitle |-> Str(Words(<<"Presentation", "for">>) \o <<" ">>
                           \o ToStr(Get(formData, "audience"))),
          slides |-> Arr(<<TitleSlide(formData)>>
                         \o [k \in 1..n |-> ContentSlide(formData, k + 1)]
                         \o <<ConclusionSlide>>)])

(***************************************************************************)
(* The upstream client (src/server.js, callOpenRouterAPI).  An outcome is  *)
(* what the remote end does with one call: the transport fails, the status *)
(* is not a success, the body has no choices, or the body carries the      *)
(* content text.  Every outcome but the last makes the call throw.         *)
(***************************************************************************)
NetworkError == [kind |-> "network"]
HttpError == [kind |-> "http"]
NoChoices == [kind |-> "nochoices"]
Content(text) == [kind |-> "content", text |-> text]

callThrows(o) == o.kind # "content"
callReturn(o) == Str(o.text)

(***************************************************************************)
(* Response texts of a generation or batch call, and JSON.parse on them.   *)
(***************************************************************************)
DocDeck ==
  Obj([title |-> Str(<<"Deck">>),
       subtitle |-> Str(<<"Overview">>),
       slides |-> Arr(<<
         Obj([title |-> Str(<<"Intro">>),
              content |-> Str(<<"<h1>", "Intro", "</h1>">>),
              type |-> Str(<<"title">>)]) >>)])

\* A document the model is free to return: its first slide is no title slide
\* and carries no content.
DocOdd ==
  Obj([slides |-> Arr(<<
         Obj([title |-> Str(<<"Agenda">>), type |-> Str(<<"content">>)]),
         Obj([title |-> Str(<<"End">>),
              content |-> Str(<<"<p>", "Bye", "</p>">>),
              type |-> Str(<<"conclusion">>)]) >>)])

DocNoSlides == Obj([title |-> Str(<<"Deck">>)])
DocSlidesString == Obj([slides |-> Str(<<"none">>)])
DocSlidesEmpty == Obj([slides |-> Arr(<<>>)])

TxtProse == Words(<<"Sorry,", "no", "JSON", "today">>)
TxtNull == <<"null">>
TxtNoSlides == <<"{\"title\":\"Deck\"}">>
TxtSlidesString == <<"{\"slides\":\"none\"}">>
TxtSlidesEmpty == <<"{\"slides\":[]}">>
TxtDeck ==
  <<"{\"title\":\"Deck\",\"subtitle\":\"Overview\",\"slides\":[{\"title\":\"Intro\",\"content\":\"",
    "<h1>", "Intro", "</h1>", "\",\"type\":\"title\"}]}">>
TxtOdd ==
  <<"{\"slides\":[{\"title\":\"Agenda\",\"type\":\"content\"},{\"title\":\"End\",\"content\":\"",
    "<p>", "Bye", "</p>", "\",\"type\":\"conclusion\"}]}">>

\* JSON.parse(text): [ok |-> FALSE] is the SyntaxError.
JSONParse(text) ==
  CASE text = TxtNull -> [ok |-> TRUE, value |-> Null]
    [] text = TxtNoSlides -> [ok |-> TRUE, value |-> DocNoSlides]
    [] text = TxtSlidesString -> [ok |-> TRUE, value |-> DocSlidesString]
    [] text = TxtSlidesEmpty -> [ok |-> TRUE, value |-> DocSlidesEmpty]
    [] text = TxtDeck -> [ok |-> TRUE, value |-> DocDeck]
    [] text = TxtOdd -> [ok |-> TRUE, value |-> DocOdd]
    [] OTHER -> [ok |-> FALSE]

\* InvalidStructure without the test for an empty array.
InvalidStructureNoLength(result) ==
  \/ ~Truthy(Prop(result, "slides"))
  \/ Prop(result, "slides").t # "array"

\* !result.slides || !Array.isArray(result.slides) || result.slides.length === 0
\* on a value whose properties can be read.
InvalidStructure(result) ==
  \/ ~Truthy(Prop(result, "slides"))
  \/ Prop(result, "slides").t # "array"
  \/ Len(Prop(result, "slides").a) = 0

\* The inner try block of the retry loop on a returned text: the parsed
\* document when it parses and has a non-empty slides array; the read of
\* null.slides throws like the explicit throw does.
ParsedOrThrow(text) ==
  LET p == JSONParse(text)
  IN IF ~p.ok THEN [ok |-> FALSE, why |-> "malformed"]
     ELSE IF ~CanRead(p.value) \/ InvalidStructure(p.value)
     THEN [ok |-> FALSE, why |-> "invalid"]
     ELSE [ok |-> TRUE, value |-> p.value]

(***************************************************************************)
(* The slide enhancer (src/server.js, enhanceSlideContent and              *)
(* createStructuredEnhancement).  Strings are token sequences here; the    *)
(* callers wrap the result with Str.                                       *)
(***************************************************************************)
\* content.replace(/<[^>]*>/g, '').trim()
PlainText(content) == Trim(StripTags(content))

\* plainText.split(/\s+/).length
WordCount(content) == SplitWsLength(PlainText(content))

LowWordCount == 15

GenericBullets ==
  <<"<ul>", "\n", "<li>">>
    \o Words(<<"Key", "benefit:", "Provides", "significant", "value", "to", "users">>)
    \o <<"</li>", "\n", "<li>">>
    \o Words(<<"Implementation:", "Easy", "to", "integrate", "and", "use">>)
    \o <<"</li>", "\n", "<li>">>
    \o Words(<<"Impact:", "Measurable", "improvements", "in", "efficiency">>)
    \o <<"</li>", "\n", "<li>">>
    \o Words(<<"Next", "steps:", "Ready", "for", "immediate", "deployment">>)
    \o <<"</li>", "\n", "</ul>">>

\* plainText.split('.').filter(s => s.trim().length > 0)
Sentences(content) ==
  SelectSeq(SplitDot(PlainText(content)), LAMBDA t : StrLen(Trim(t)) > 0)

\* sentences.slice(1).map(s => `<li>${s.trim()}</li>`).join('')
Details(sentences) ==
  Concat([k \in 1..(Len(sentences) - 1) |->
            <<"<li>">> \o Trim(sentences[k + 1]) \o <<"</li>">>])

\* The last statement of createStructuredEnhancement.
DefaultEnhancement(title, content) ==
  IF Includes(content, "<h2>") THEN content
  ELSE <<"<h2>">> \o ToStr(title) \o <<"</h2>">> \o content

\* createStructuredEnhancement without its branches: the last statement only.
createStructuredDefaultOnly(title, content) == DefaultEnhancement(title, content)

createStructuredEnhancement(title, content) ==
  IF WordCount(content) < LowWordCount
  THEN <<"<h2>">> \o ToStr(title) \o <<"</h2>", "\n", "<p>">> \o PlainText(content)
         \o <<"</p>", "\n">> \o GenericBullets
  ELSE IF ~Includes(content, "<ul>") /\ ~Includes(content, "<h2>")
            /\ Len(Sentences(content)) > 1
  THEN <<"<h2>">> \o ToStr(title) \o <<"</h2>", "\n", "<p>">>
         \o Trim(Sentences(content)[1]) \o <<".", "</p>", "\n", "<ul>", "\n">>
         \o Details(Sentences(content)) \o <<"\n", "</ul>">>
  ELSE DefaultEnhancement(title, content)

\* The clean-up of the returned text: trim, the two emphasis rewrites, and
\* the paragraph wrap of a text without markup.
CleanContent(text) ==
  LET c == ReplaceItalic(ReplaceBold(Trim(text)))
  IN IF ~IncludesLt(c) /\ StrLen(c) > 0 THEN <<"<p>">> \o c \o <<"</p>">> ELSE c

\* TooShort rejecting a text of exactly 80% of the original length.
TooShortInclusive(clean, content) ==
  10 * StrLen(PlainText(clean)) <= 8 * StrLen(PlainText(content))

\* enhancedPlainText.length < plainText.length * 0.8, in tenths.
TooShort(clean, content) ==
  10 * StrLen(PlainText(clean)) < 8 * StrLen(PlainText(content))

\* enhanceSlideContent throws before its try block when content has no
\* replace method, that is when it is no string.
enhanceThrows(content) == ~IsString(content)

\* enhanceSlideContent(title, content) for a string content once its one
\* upstream call has had outcome o.
enhanceSlideContent(title, content, o) ==
  IF callThrows(o)
  THEN createStructuredEnhancement(title, content.s)
  ELSE IF TooShort(CleanContent(callReturn(o).s), content.s)
  THEN createStructuredEnhancement(title, content.s)
  ELSE CleanContent(callReturn(o).s)

(***************************************************************************)
(* State.  reqs[r] is the r-th request the server receives: its route and  *)
(* body, where its handler stands (idle: not yet arrived; await: suspended *)
(* on a generation, batch or notes call; awaitSlide: suspended on the      *)
(* enhancement call of one slide; done: responded), the handler's locals   *)
(* (attempts, base: the base presentation, enhanced: enhancedSlides), the  *)
(* response, and a record of what happened to the request: calls, its      *)
(* upstream invocations; outcomes, what became of each generation or batch *)
(* call; last, the outcome of its enhance-slide call; hit, the cache check *)
(* that served it; from and baseFrom, the request that wrote the entry its *)
(* route's, or generateBasePresentation's, cache check found younger than  *)
(* the cache duration (0: none); stale, the cache checks that found an     *)
(* entry older than the cache duration.                                    *)
(* upstreamOk: some upstream call has returned a text.                     *)
(***************************************************************************)
Reqs == 1..MaxReqs

NoRequest ==
  [route |-> "none", body |-> Undefined, pc |-> "idle", attempts |-> 0,
   calls |-> 0, status |-> 0, response |-> Undefined, outcomes |-> <<>>,
   hit |-> "none", from |-> 0, baseFrom |-> 0, stale |-> {},
   last |-> NetworkError, base |-> Undefined, enhanced |-> <<>>,
   slideErrors |-> {}]

Init ==
  /\ now = 0
  /\ requestCache = <<>>
  /\ reqs = [r \in Reqs |-> NoRequest]
  /\ upstreamOk = FALSE

\* requestCache.get(key) is defined.
Has(key) == key \in DOMAIN requestCache

\* Fresh with the comparison turned round.
FreshWrongWay(key) ==
  Has(key) /\ now - requestCache[key].timestamp > CACHE_DURATION

\* Fresh without the age test.
FreshNoExpiry(key) == Has(key)

\* cached && Date.now() - cached.timestamp < CACHE_DURATION
Fresh(key) == Has(key) /\ now - requestCache[key].timestamp < CACHE_DURATION

\* An entry is there and older than the cache duration.
Stale(key) == Has(key) /\ now - requestCache[key].timestamp > CACHE_DURATION

\* CacheSet that keeps an entry already under the key.
CacheSetIfAbsent(cache, key, data, r) ==
  [k \in DOMAIN cache \cup {key} |->
     IF k = key /\ k \notin DOMAIN cache
     THEN [data |-> data, timestamp |-> now, by |-> r]
     ELSE cache[k]]

\* requestCache.set(key, {data, timestamp: Date.now()}) on the map cache, by
\* request r.
CacheSet(cache, key, data, r) ==
  [k \in DOMAIN cache \cup {key} |->
     IF k = key THEN [data |-> data, timestamp |-> now, by |-> r]
     ELSE cache[k]]

\* MissingFields without the test of duration.
MissingFieldsNoDuration(body) ==
  \/ ~Truthy(Get(body, "topic"))
  \/ ~Truthy(Get(body, "audience"))
  \/ ~Truthy(Get(body, "slideCount"))

\* !topic || !audience || !slideCount || !duration
MissingFields(body) ==
  \/ ~Truthy(Get(body, "topic"))
  \/ ~Truthy(Get(body, "audience"))
  \/ ~Truthy(Get(body, "slideCount"))
  \/ ~Truthy(Get(body, "duration"))

\* !title || !content
MissingTitleOrContent(body) ==
  ~Truthy(Get(body, "title")) \/ ~Truthy(Get(body, "content"))

ErrorBody(msg) == Obj([error |-> Str(<<msg>>)])

\* res.status(status).json(response)
Respond(q, status, response) ==
  [q EXCEPT !.pc = "done", !.status = status, !.response = response]

\* A request arrives once the requests before it have.
Arrives(r) == reqs[r].pc = "idle" /\ \A q \in 1..(r - 1) : reqs[q].pc # "idle"

\* The record of what an arriving request finds under key: the writer of an
\* entry younger than the cache duration, and whether the entry is older.
YoungWriter(key) ==
  IF Has(key) /\ now - requestCache[key].timestamp < 30 * 60 * 1000
  THEN requestCache[key].by ELSE 0
Found(label, key) == IF Stale(key) THEN {label} ELSE {}

Arrived(r, route, body) ==
  [reqs[r] EXCEPT !.route = route, !.body = body]

\* What became of a generation or batch call: it threw, its text did not
\* parse, it parsed to no document with a non-empty slides array, or it did.
OutcomeKind(o) ==
  IF callThrows(o) THEN "error"
  ELSE IF ParsedOrThrow(callReturn(o).s).ok THEN "valid"
  ELSE ParsedOrThrow(callReturn(o).s).why

\* while (attempts < 3 && !result)
LoopContinues(attempts, result) == attempts < MaxAttempts /\ ~Truthy(result)

(***************************************************************************)
(* POST /api/generate-presentation                                         *)
(***************************************************************************)
\* RouteAttempt retrying after an unusable text as after a thrown error.
RouteAttemptRetrying(formData, attempts, o) ==
  IF callThrows(o) \/ ~ParsedOrThrow(callReturn(o).s).ok
  THEN IF attempts = MaxAttempts THEN createFallbackPresentation(formData) ELSE Null
  ELSE ParsedOrThrow(callReturn(o).s).value

\* RouteAttempt with the final fallback one attempt early.
RouteAttemptEarly(formData, attempts, o) ==
  IF callThrows(o)
  THEN IF attempts = MaxAttempts - 1
       THEN createFallbackPresentation(formData) ELSE Null
  ELSE IF ParsedOrThrow(callReturn(o).s).ok
  THEN ParsedOrThrow(callReturn(o).s).value
  ELSE createFallbackPresentation(formData)

\* One pass of the loop body of the route, for the attempt numbered
\* attempts whose upstream call had outcome o: the new value of result.
RouteAttempt(formData, attempts, o) ==
  IF callThrows(o)
  THEN IF attempts = MaxAttempts THEN createFallbackPresentation(formData) ELSE Null
  ELSE IF ParsedOrThrow(callReturn(o).s).ok
  THEN ParsedOrThrow(callReturn(o).s).value
  ELSE createFallbackPresentation(formData)

\* GeneratePresentation storing the entry it serves again, stamped now.
GeneratePresentationTouching(r, Bodies) ==
  /\ Arrives(r)
  /\ \E body \in Bodies :
       LET q0 == Arrived(r, "generate-presentation", body)
           key == createCacheKey(body)
           q1 == [q0 EXCEPT !.from = YoungWriter(key), !.stale = Found("route", key)]
       IN IF MissingFields(body)
          THEN /\ reqs' = [reqs EXCEPT ![r] =
                    Respond(q0, 400, ErrorBody("Missing required fields"))]
               /\ UNCHANGED requestCache
          ELSE IF Fresh(key)
          THEN /\ reqs' = [reqs EXCEPT ![r] =
                    Respond([q1 EXCEPT !.hit = "route"], 200, requestCache[key].data)]
               /\ requestCache' =
                    [requestCache EXCEPT ![key].timestamp = now]
          ELSE /\ reqs' = [reqs EXCEPT ![r] =
                    [q1 EXCEPT !.pc = "await", !.attempts = 1, !.calls = 1]]
               /\ UNCHANGED requestCache
  /\ UNCHANGED <<now, upstreamOk>>

\* GeneratePresentation issuing the calls of all its attempts at once.
GeneratePresentationParallel(r, Bodies) ==
  /\ Arrives(r)
  /\ \E body \in Bodies :
       LET q0 == Arrived(r, "generate-presentation", body)
           key == createCacheKey(body)
           q1 == [q0 EXCEPT !.from = YoungWriter(key), !.stale = Found("route", key)]
       IN reqs' = [reqs EXCEPT ![r] =
            IF MissingFields(body)
            THEN Respond(q0, 400, ErrorBody("Missing required fields"))
            ELSE IF Fresh(key)
            THEN Respond([q1 EXCEPT !.hit = "route"], 200, requestCache[key].data)
            ELSE [q1 EXCEPT !.pc = "await", !.attempts = 1, !.calls = MaxAttempts]]
  /\ UNCHANGED <<now, requestCache, upstreamOk>>

\* The handler up to its first upstream call.
GeneratePresentation(r, Bodies) ==
  /\ Arrives(r)
  /\ \E body \in Bodies :
       LET q0 == Arrived(r, "generate-presentation", body)
           key == createCacheKey(body)
           q1 == [q0 EXCEPT !.from = YoungWriter(key), !.stale = Found("route", key)]
       IN reqs' = [reqs EXCEPT ![r] =
            IF MissingFields(body)
            THEN Respond(q0, 400, ErrorBody("Missing required fields"))
            ELSE IF Fresh(key)
            THEN Respond([q1 EXCEPT !.hit = "route"], 200, requestCache[key].data)
            ELSE [q1 EXCEPT !.pc = "await", !.attempts = 1, !.calls = 1]]
  /\ UNCHANGED <<now, requestCache, upstreamOk>>

\* GenerateAttemptDone checking the cache again when its loop ends, and
\* answering with an entry written in the meantime.
GenerateAttemptDoneSharing(r, Outcomes) ==
  /\ reqs[r].pc = "await"
  /\ reqs[r].route = "generate-presentation"
  /\ \E o \in Outcomes :
       LET q == reqs[r]
           key == createCacheKey(q.body)
           result == RouteAttempt(q.body, q.attempts, o)
           q1 == [q EXCEPT !.outcomes = Append(@, OutcomeKind(o))]
       IN /\ upstreamOk' = (upstreamOk \/ ~callThrows(o))
          /\ IF LoopContinues(q.attempts, result)
             THEN /\ reqs' = [reqs EXCEPT ![r] =
                       [q1 EXCEPT !.attempts = @ + 1, !.calls = @ + 1]]
                  /\ UNCHANGED requestCache
             ELSE IF Fresh(key)
             THEN /\ reqs' = [reqs EXCEPT ![r] =
                       Respond(q1, 200, requestCache[key].data)]
                  /\ UNCHANGED requestCache
             ELSE /\ requestCache' = CacheSet(requestCache, key, result, r)
                  /\ reqs' = [reqs EXCEPT ![r] = Respond(q1, 200, result)]
  /\ UNCHANGED now

\* GenerateAttemptDone starting the loop over after the third thrown error.
GenerateAttemptDoneRestarting(r, Outcomes) ==
  /\ reqs[r].pc = "await"
  /\ reqs[r].route = "generate-presentation"
  /\ \E o \in Outcomes :
       LET q == reqs[r]
           result == RouteAttempt(q.body, q.attempts, o)
           q1 == [q EXCEPT !.outcomes = Append(@, OutcomeKind(o))]
       IN /\ upstreamOk' = (upstreamOk \/ ~callThrows(o))
          /\ IF callThrows(o) /\ q.attempts = MaxAttempts
             THEN /\ reqs' = [reqs EXCEPT ![r] =
                       [q EXCEPT !.attempts = 1, !.calls = 1, !.outcomes = <<>>]]
                  /\ UNCHANGED requestCache
             ELSE IF LoopContinues(q.attempts, result)
             THEN /\ reqs' = [reqs EXCEPT ![r] =
                       [q1 EXCEPT !.attempts = @ + 1, !.calls = @ + 1]]
                  /\ UNCHANGED requestCache
             ELSE /\ requestCache' =
                       CacheSet(requestCache, createCacheKey(q.body), result, r)
                  /\ reqs' = [reqs EXCEPT ![r] = Respond(q1, 200, result)]
  /\ UNCHANGED now

\* The handler from the return of an upstream call to the next call or to
\* the response.
GenerateAttemptDone(r, Outcomes) ==
  /\ reqs[r].pc = "await"
  /\ reqs[r].route = "generate-presentation"
  /\ \E o \in Outcomes :
       LET q == reqs[r]
           result == RouteAttempt(q.body, q.attempts, o)
           q1 == [q EXCEPT !.outcomes = Append(@, OutcomeKind(o))]
       IN /\ upstreamOk' = (upstreamOk \/ ~callThrows(o))
          /\ IF LoopContinues(q.attempts, result)
             THEN /\ reqs' = [reqs EXCEPT ![r] =
                       [q1 EXCEPT !.attempts = @ + 1, !.calls = @ + 1]]
                  /\ UNCHANGED requestCache
             ELSE /\ requestCache' =
                       CacheSet(requestCache, createCacheKey(q.body), result, r)
                  /\ reqs' = [reqs EXCEPT ![r] = Respond(q1, 200, result)]
  /\ UNCHANGED now

(***************************************************************************)
(* POST /api/generate-and-enhance-presentation, with                       *)
(* generateBasePresentation.                                               *)
(***************************************************************************)
\* BaseAttempt retrying after an unusable text as after a thrown error.
BaseAttemptRetrying(formData, attempts, o) ==
  IF callThrows(o) \/ ~ParsedOrThrow(callReturn(o).s).ok
  THEN IF attempts = MaxAttempts THEN createFallbackPresentation(formData) ELSE Null
  ELSE ParsedOrThrow(callReturn(o).s).value

\* One pass of the loop body of generateBasePresentation.
BaseAttempt(formData, attempts, o) ==
  IF callThrows(o)
  THEN IF attempts = MaxAttempts THEN createFallbackPresentation(formData) ELSE Null
  ELSE IF ParsedOrThrow(callReturn(o).s).ok
  THEN ParsedOrThrow(callReturn(o).s).value
  ELSE createFallbackPresentation(formData)

\* Spread without the spread: the new properties alone.
SpreadNothing(v, rec) == Obj(rec)

\* { ...v, <the properties of rec> }
Spread(v, rec) == Obj(rec @@ (IF v.t = "object" THEN v.o ELSE <<>>))

\* The try block of the per-slide loop throws before any upstream call when
\* the slide is null or its content is no string.
SlideThrows(slide) == ~CanRead(slide) \/ enhanceThrows(Prop(slide, "content"))

\* The per-slide loop from enhancedSlides = enhanced up to the next slide
\* that needs an upstream call: each slide that throws is pushed with
\* autoEnhanced false.
RECURSIVE SkipThrowing(_, _)
SkipThrowing(slides, enhanced) ==
  IF Len(enhanced) < Len(slides) /\ SlideThrows(slides[Len(enhanced) + 1])
  THEN SkipThrowing(slides,
         Append(enhanced,
                Spread(slides[Len(enhanced) + 1], [autoEnhanced |-> Bool(FALSE)])))
  ELSE enhanced

\* The route from the moment it holds basePresentation with enhancedSlides
\* = enhanced, up to the next enhancement call or to the response: the new
\* request record and the new cache.
SlideLoop(r, q, base, enhanced, cache) ==
  LET slides == Get(base, "slides").a
      pushed == SkipThrowing(slides, enhanced)
      result == Spread(base, [slides |-> Arr(pushed), autoEnhanced |-> Bool(TRUE)])
  IN IF Len(pushed) = Len(slides)
     THEN [req |-> Respond([q EXCEPT !.base = base, !.enhanced = <<>>], 200, result),
           cache |-> CacheSet(cache, EnhancedKey(q.body), result, r)]
     ELSE [req |-> [q EXCEPT !.pc = "awaitSlide", !.base = base,
                             !.enhanced = pushed, !.calls = @ + 1],
           cache |-> cache]

\* The handler up to its first upstream call: the route's cache check, then
\* generateBasePresentation's.
GenerateAndEnhance(r, Bodies) ==
  /\ Arrives(r)
  /\ \E body \in Bodies :
       LET q0 == Arrived(r, "generate-and-enhance-presentation", body)
           key == createCacheKey(body)
           ekey == EnhancedKey(body)
           q1 == [q0 EXCEPT !.from = YoungWriter(ekey), !.stale = Found("route", ekey)]
           q2 == [q1 EXCEPT !.baseFrom = YoungWriter(key),
                            !.stale = @ \cup Found("base", key)]
           next == SlideLoop(r, [q2 EXCEPT !.hit = "base"],
                             requestCache[key].data, <<>>, requestCache)
       IN IF MissingFields(body)
          THEN /\ reqs' = [reqs EXCEPT ![r] =
                    Respond(q0, 400, ErrorBody("Missing required fields"))]
               /\ UNCHANGED requestCache
          ELSE IF Fresh(ekey)
          THEN /\ reqs' = [reqs EXCEPT ![r] =
                    Respond([q1 EXCEPT !.hit = "route"], 200, requestCache[ekey].data)]
               /\ UNCHANGED requestCache
          ELSE IF Fresh(key)
          THEN /\ reqs' = [reqs EXCEPT ![r] = next.req]
               /\ requestCache' = next.cache
          ELSE /\ reqs' = [reqs EXCEPT ![r] =
                    [q2 EXCEPT !.pc = "await", !.attempts = 1, !.calls = 1]]
               /\ UNCHANGED requestCache
  /\ UNCHANGED <<now, upstreamOk>>

\* generateBasePresentation from the return of an upstream call to its next
\* call, or through its cache write and return into the per-slide loop.
BaseAttemptDone(r, Outcomes) ==
  /\ reqs[r].pc = "await"
  /\ reqs[r].route = "generate-and-enhance-presentation"
  /\ \E o \in Outcomes :
       LET q == reqs[r]
           q1 == [q EXCEPT !.outcomes = Append(@, OutcomeKind(o))]
       IN \E result \in {BaseAttempt(q.body, q.attempts, o)} :
          /\ upstreamOk' = (upstreamOk \/ ~callThrows(o))
          /\ IF LoopContinues(q.attempts, result)
             THEN /\ reqs' = [reqs EXCEPT ![r] =
                       [q1 EXCEPT !.attempts = @ + 1, !.calls = @ + 1]]
                  /\ UNCHANGED requestCache
             ELSE \E next \in {SlideLoop(r, q1, result, <<>>,
                    CacheSet(requestCache, createCacheKey(q.body), result, r))} :
                  /\ reqs' = [reqs EXCEPT ![r] = next.req]
                  /\ requestCache' = next.cache
  /\ UNCHANGED now

\* SlideEnhanceDone keeping the original slide, marked not enhanced, when
\* the slide's call threw.
SlideEnhanceDoneKeeping(r, Outcomes) ==
  /\ reqs[r].pc = "awaitSlide"
  /\ \E o \in Outcomes :
       LET q == reqs[r]
           slide == Get(q.base, "slides").a[Len(q.enhanced) + 1]
           enhancedContent ==
             enhanceSlideContent(Prop(slide, "title"), Prop(slide, "content"), o)
           q1 == IF callThrows(o)
                 THEN [q EXCEPT !.slideErrors = @ \cup {Len(q.enhanced) + 1}]
                 ELSE q
           next == SlideLoop(r, q1, q.base,
                     Append(q.enhanced,
                            IF callThrows(o)
                            THEN Spread(slide, [autoEnhanced |-> Bool(FALSE)])
                            ELSE Spread(slide, [content |-> Str(enhancedContent),
                                                autoEnhanced |-> Bool(TRUE)])),
                     requestCache)
       IN /\ upstreamOk' = (upstreamOk \/ ~callThrows(o))
          /\ reqs' = [reqs EXCEPT ![r] = next.req]
          /\ requestCache' = next.cache
  /\ UNCHANGED now

\* SlideEnhanceDone calling a second time for a slide whose call threw.
SlideEnhanceDoneRetrying(r, Outcomes) ==
  /\ reqs[r].pc = "awaitSlide"
  /\ \E o \in Outcomes :
       LET q == reqs[r]
           slide == Get(q.base, "slides").a[Len(q.enhanced) + 1]
           q1 == IF callThrows(o)
                 THEN [q EXCEPT !.slideErrors = @ \cup {Len(q.enhanced) + 1}]
                 ELSE q
       IN \E enhancedContent \in
               {enhanceSlideContent(Prop(slide, "title"), Prop(slide, "content"), o)} :
          \E next \in {SlideLoop(r, q1, q.base,
                     Append(q.enhanced,
                            Spread(slide, [content |-> Str(enhancedContent),
                                           autoEnhanced |-> Bool(TRUE)])),
                     requestCache)} :
          /\ upstreamOk' = (upstreamOk \/ ~callThrows(o))
          /\ IF callThrows(o) /\ Len(q.enhanced) + 1 \notin q.slideErrors
             THEN /\ reqs' = [reqs EXCEPT ![r] = [q1 EXCEPT !.calls = @ + 1]]
                  /\ UNCHANGED requestCache
             ELSE /\ reqs' = [reqs EXCEPT ![r] = next.req]
                  /\ requestCache' = next.cache
  /\ UNCHANGED now

\* The per-slide loop from the return of a slide's enhancement call.
SlideEnhanceDone(r, Outcomes) ==
  /\ reqs[r].pc = "awaitSlide"
  /\ \E o \in Outcomes :
       LET q == reqs[r]
           slide == Get(q.base, "slides").a[Len(q.enhanced) + 1]
           q1 == IF callThrows(o)
                 THEN [q EXCEPT !.slideErrors = @ \cup {Len(q.enhanced) + 1}]
                 ELSE q
       IN \E enhancedContent \in
               {enhanceSlideContent(Prop(slide, "title"), Prop(slide, "content"), o)} :
          \E next \in {SlideLoop(r, q1, q.base,
                     Append(q.enhanced,
                            Spread(slide, [content |-> Str(enhancedContent),
                                           autoEnhanced |-> Bool(TRUE)])),
                     requestCache)} :
          /\ upstreamOk' = (upstreamOk \/ ~callThrows(o))
          /\ reqs' = [reqs EXCEPT ![r] = next.req]
          /\ requestCache' = next.cache
  /\ UNCHANGED now

(***************************************************************************)
(* POST /api/enhance-slide                                                 *)
(***************************************************************************)
\* The handler up to the upstream call of enhanceSlideContent; a content
\* that is no string makes enhanceSlideContent throw into the route's catch.
EnhanceSlide(r, Bodies) ==
  /\ Arrives(r)
  /\ \E body \in Bodies :
       LET q0 == Arrived(r, "enhance-slide", body)
       IN reqs' = [reqs EXCEPT ![r] =
            IF MissingTitleOrContent(body)
            THEN Respond(q0, 400, ErrorBody("Missing required fields"))
            ELSE IF enhanceThrows(Get(body, "content"))
            THEN Respond(q0, 500, ErrorBody("Failed to enhance slide"))
            ELSE [q0 EXCEPT !.pc = "await", !.calls = 1]]
  /\ UNCHANGED <<now, requestCache, upstreamOk>>

EnhanceSlideDone(r, Outcomes) ==
  /\ reqs[r].pc = "await"
  /\ reqs[r].route = "enhance-slide"
  /\ \E o \in Outcomes :
       LET q == reqs[r]
           enhancedContent ==
             enhanceSlideContent(Get(q.body, "title"), Get(q.body, "content"), o)
       IN /\ upstreamOk' = (upstreamOk \/ ~callThrows(o))
          /\ reqs' = [reqs EXCEPT ![r] =
               Respond([q EXCEPT !.last = o], 200,
                       Obj([content |-> Str(enhancedContent)]))]
  /\ UNCHANGED <<now, requestCache>>

(***************************************************************************)
(* POST /api/enhance-all-slides                                            *)
(***************************************************************************)
\* !slides || !Array.isArray(slides)
MissingSlides(body) ==
  ~Truthy(Get(body, "slides")) \/ Get(body, "slides").t # "array"

\* Building the prompt reads s.title and calls s.content.replace on every
\* slide: it throws on a null slide and on a content that is no string.
PromptThrows(slides) ==
  \E i \in 1..Len(slides) :
    ~CanRead(slides[i]) \/ ~IsString(Prop(slides[i], "content"))

\* { slides }
OriginalSlides(body) == Obj([slides |-> Get(body, "slides")])

\* EnhanceAllSlides fanning out: one call for each slide of the list.
EnhanceAllSlidesPerSlide(r, Bodies) ==
  /\ Arrives(r)
  /\ \E body \in Bodies :
       LET q0 == Arrived(r, "enhance-all-slides", body)
       IN reqs' = [reqs EXCEPT ![r] =
            IF MissingSlides(body)
            THEN Respond(q0, 400, ErrorBody("Missing required field: slides array"))
            ELSE IF PromptThrows(Get(body, "slides").a)
            THEN Respond(q0, 200, OriginalSlides(body))
            ELSE [q0 EXCEPT !.pc = "await", !.calls = Len(Get(body, "slides").a)]]
  /\ UNCHANGED <<now, requestCache, upstreamOk>>

EnhanceAllSlides(r, Bodies) ==
  /\ Arrives(r)
  /\ \E body \in Bodies :
       LET q0 == Arrived(r, "enhance-all-slides", body)
       IN reqs' = [reqs EXCEPT ![r] =
            IF MissingSlides(body)
            THEN Respond(q0, 400, ErrorBody("Missing required field: slides array"))
            ELSE IF PromptThrows(Get(body, "slides").a)
            THEN Respond(q0, 200, OriginalSlides(body))
            ELSE [q0 EXCEPT !.pc = "await", !.calls = 1]]
  /\ UNCHANGED <<now, requestCache, upstreamOk>>

\* The response once the batch call has had outcome o.
BatchResponse(body, o) ==
  IF callThrows(o) THEN OriginalSlides(body)
  ELSE IF JSONParse(callReturn(o).s).ok THEN JSONParse(callReturn(o).s).value
  ELSE OriginalSlides(body)

\* EnhanceAllDone with a failed call answered as the speaker-notes route
\* answers it.
EnhanceAllDonePropagating(r, Outcomes) ==
  /\ reqs[r].pc = "await"
  /\ reqs[r].route = "enhance-all-slides"
  /\ \E o \in Outcomes :
       /\ upstreamOk' = (upstreamOk \/ ~callThrows(o))
       /\ reqs' = [reqs EXCEPT ![r] =
            IF callThrows(o)
            THEN Respond([reqs[r] EXCEPT !.outcomes = Append(@, OutcomeKind(o))],
                         500, ErrorBody("Failed to enhance slides"))
            ELSE Respond([reqs[r] EXCEPT !.outcomes = Append(@, OutcomeKind(o))],
                         200, BatchResponse(reqs[r].body, o))]
  /\ UNCHANGED <<now, requestCache>>

EnhanceAllDone(r, Outcomes) ==
  /\ reqs[r].pc = "await"
  /\ reqs[r].route = "enhance-all-slides"
  /\ \E o \in Outcomes :
       /\ upstreamOk' = (upstreamOk \/ ~callThrows(o))
       /\ reqs' = [reqs EXCEPT ![r] =
            Respond([reqs[r] EXCEPT !.outcomes = Append(@, OutcomeKind(o))],
                    200, BatchResponse(reqs[r].body, o))]
  /\ UNCHANGED <<now, requestCache>>

(***************************************************************************)
(* POST /api/generate-speaker-notes                                        *)
(***************************************************************************)
GenerateSpeakerNotes(r, Bodies) ==
  /\ Arrives(r)
  /\ \E body \in Bodies :
       LET q0 == Arrived(r, "generate-speaker-notes", body)
       IN reqs' = [reqs EXCEPT ![r] =
            IF MissingTitleOrContent(body)
            THEN Respond(q0, 400, ErrorBody("Missing required fields"))
            ELSE [q0 EXCEPT !.pc = "await", !.calls = 1]]
  /\ UNCHANGED <<now, requestCache, upstreamOk>>

\* SpeakerNotesDone absorbing a failed call as the enhance-slide route does,
\* with notes made from the slide.
SpeakerNotesDoneAbsorbing(r, Outcomes) ==
  /\ reqs[r].pc = "await"
  /\ reqs[r].route = "generate-speaker-notes"
  /\ \E o \in Outcomes :
       /\ upstreamOk' = (upstreamOk \/ ~callThrows(o))
       /\ reqs' = [reqs EXCEPT ![r] =
            Respond([reqs[r] EXCEPT !.last = o], 200,
                    Obj([notes |-> IF callThrows(o) THEN Get(reqs[r].body, "title")
                                   ELSE callReturn(o)]))]
  /\ UNCHANGED <<now, requestCache>>

SpeakerNotesDone(r, Outcomes) ==
  /\ reqs[r].pc = "await"
  /\ reqs[r].route = "generate-speaker-notes"
  /\ \E o \in Outcomes :
       /\ upstreamOk' = (upstreamOk \/ ~callThrows(o))
       /\ reqs' = [reqs EXCEPT ![r] =
            IF callThrows(o)
            THEN Respond([reqs[r] EXCEPT !.last = o], 500,
                         ErrorBody("Failed to generate speaker notes"))
            ELSE Respond([reqs[r] EXCEPT !.last = o], 200,
                         Obj([notes |-> callReturn(o)]))]
  /\ UNCHANGED <<now, requestCache>>

(***************************************************************************)
(* The cache sweep and the clock.                                          *)
(***************************************************************************)
\* Expired at half the cache duration.
ExpiredEarly(entry) == now - entry.timestamp >= CACHE_DURATION \div 2

\* now - value.timestamp > CACHE_DURATION
Expired(entry) == now - entry.timestamp > CACHE_DURATION

\* The setInterval callback: every expired entry is deleted.
Sweep ==
  /\ \E k \in DOMAIN requestCache : Expired(requestCache[k])
  /\ requestCache' =
       [k \in {j \in DOMAIN requestCache : ~Expired(requestCache[j])} |->
          requestCache[k]]
  /\ UNCHANGED <<now, reqs, upstreamOk>>

\* The clock advances in steps of half the cache duration: an entry is seen
\* at the ages 0, TTL/2, TTL and beyond.
TickStep == CACHE_DURATION \div 2

Tick ==
  /\ now < MaxTicks * TickStep
  /\ now' = now + TickStep
  /\ UNCHANGED <<requestCache, reqs, upstreamOk>>

(***************************************************************************)
(* Inputs: the request bodies and the upstream outcomes the model draws.   *)
(***************************************************************************)
Topic == Str(Words(<<"Climate", "Change", "Solutions">>))
Audience == Str(<<"business">>)

FormData(slideCount) ==
  Obj([topic |-> Topic, audience |-> Audience, slideCount |-> slideCount,
       duration |-> Num(30)])

\* A body with a field missing.
NoTopicForm == Obj([audience |-> Audience, slideCount |-> Num(3), duration |-> Num(30)])

\* Numbers from -1 on, and the string form the README's request example uses.
SlideCounts ==
  ({Num(n) : n \in -1..MaxSlideCount} \ {Num(0)}) \cup {Str(<<"3">>), Str(<<"many">>)}

GenOutcomes ==
  {NetworkError, HttpError, NoChoices}
    \cup {Content(t) : t \in {TxtProse, TxtNull, TxtNoSlides, TxtSlidesString,
                              TxtSlidesEmpty, TxtDeck, TxtOdd}}

\* Texts an enhancement call returns: a structured answer, prose without
\* markup, prose with emphasis markers, and a one-word answer.
EnhStructured ==
  <<"<h2>", "Roadmap", "</h2>", "\n", "<ul>", "<li>">>
    \o Words(<<"Three", "releases", "this", "year">>) \o <<"</li>", "<li>">>
    \o Words(<<"One", "platform", "for", "all", "teams">>) \o <<"</li>", "</ul>">>
EnhProse ==
  Words(<<"Our", "roadmap", "covers", "three", "releases", "and", "one",
          "platform", "for", "every", "team", "and", "every", "customer">>)
EnhMarkdown ==
  <<"*", "*">> \o Words(<<"Three", "releases">>) \o <<"*", "*", " ">>
    \o Words(<<"on", "one">>) \o <<" ", "*", "platform", "*", " ">>
    \o Words(<<"for", "every", "team", "and", "every", "customer">>)
EnhTiny == <<"ok">>

EnhOutcomes ==
  {NetworkError, HttpError, NoChoices}
    \cup {Content(t) : t \in {EnhStructured, EnhProse, EnhMarkdown, EnhTiny}}

NotesOutcomes == {NetworkError, HttpError, NoChoices, Content(EnhProse)}

SlideBody(title, content) == Obj([title |-> Str(title), content |-> Str(content)])

ShortContent == <<"<p>">> \o Words(<<"Our", "product", "roadmap">>) \o <<"</p>">>

EnhBodies ==
  {SlideBody(<<"Roadmap">>, ShortContent),
   Obj([title |-> Str(<<"Roadmap">>)])}

\* Contents of 14 and of 15 words in two sentences, a content with a list
\* and one with a top heading and a numbered list, of 13 words each once
\* the markup is stripped.
FourteenWords ==
  Words(<<"We", "ship", "three", "releases", "this", "year">>) \o <<".", " ">>
    \o Words(<<"Each", "release", "adds", "one", "platform", "for", "our", "teams">>)
    \o <<".">>
FifteenWords ==
  Words(<<"We", "ship", "three", "big", "releases", "this", "year">>) \o <<".", " ">>
    \o Words(<<"Each", "release", "adds", "one", "platform", "for", "our", "teams">>)
    \o <<".">>
ListedContent ==
  <<"<p>">> \o Words(<<"We", "ship", "three", "big", "releases", "this", "year">>)
    \o <<"</p>", "<ul>", "<li>">>
    \o Words(<<"Each", "release", "adds", "one", "platform">>) \o <<"</li>", "<li>">>
    \o Words(<<"for", "our", "teams">>) \o <<"</li>", "</ul>">>
HeadedContent ==
  <<"<h1>">> \o Words(<<"Our", "plan">>) \o <<"</h1>", "<ol>", "<li>">>
    \o Words(<<"We", "ship", "three", "big", "releases", "this", "year">>)
    \o <<".", "</li>", "<li>">>
    \o Words(<<"Each", "release", "adds", "one", "platform", "here">>)
    \o <<".", "</li>", "</ol>">>

EnhanceBodies ==
  {SlideBody(<<"Roadmap">>, c) :
     c \in {ShortContent, FourteenWords, FifteenWords, ListedContent, HeadedContent}}
    \cup {Obj([title |-> Str(<<"Roadmap">>)]),
          Obj([title |-> Str(<<"Roadmap">>), content |-> Num(5)])}

TwoSlides ==
  Obj([slides |-> Arr(<<
         Obj([title |-> Str(<<"Roadmap">>), content |-> Str(ShortContent),
              type |-> Str(<<"title">>)]),
         Obj([title |-> Str(<<"End">>), content |-> Str(<<"<p>", "Bye", "</p>">>),
              type |-> Str(<<"conclusion">>)]) >>)])

(***************************************************************************)
(* The server: every route, the sweep and the clock.  Requests with the    *)
(* same fields share a fingerprint.                                        *)
(***************************************************************************)
ServerForms == {FormData(Num(2)), NoTopicForm}
ServerGenOutcomes ==
  {NetworkError, Content(TxtProse), Content(TxtSlidesEmpty), Content(TxtOdd)}
ServerSlideOutcomes == {HttpError, Content(EnhTiny)}
ServerEnhOutcomes == {HttpError, Content(EnhProse)}
ServerBatches == {TwoSlides, Obj([title |-> Str(<<"Roadmap">>)])}
ServerBatchOutcomes == {NoChoices, Content(TxtProse), Content(TxtNull)}

Next ==
  \/ \E r \in Reqs : GeneratePresentation(r, ServerForms)
  \/ \E r \in Reqs : GenerateAttemptDone(r, ServerGenOutcomes)
  \/ \E r \in Reqs : GenerateAndEnhance(r, ServerForms)
  \/ \E r \in Reqs : BaseAttemptDone(r, ServerGenOutcomes)
  \/ \E r \in Reqs : SlideEnhanceDone(r, ServerSlideOutcomes)
  \/ \E r \in Reqs : EnhanceSlide(r, EnhBodies)
  \/ \E r \in Reqs : EnhanceSlideDone(r, ServerEnhOutcomes)
  \/ \E r \in Reqs : EnhanceAllSlides(r, ServerBatches)
  \/ \E r \in Reqs : EnhanceAllDone(r, ServerBatchOutcomes)
  \/ \E r \in Reqs : GenerateSpeakerNotes(r, EnhBodies)
  \/ \E r \in Reqs : SpeakerNotesDone(r, ServerEnhOutcomes)
  \/ Sweep
  \/ Tick

Spec == Init /\ [][Next]_vars

(***************************************************************************)
(* The generation route alone: concurrent requests with one fingerprint,   *)
(* every kind of upstream outcome, the sweep and the clock.                *)
(***************************************************************************)
NextGen ==
  \/ \E r \in Reqs : GeneratePresentation(r, {FormData(Num(3)), NoTopicForm})
  \/ \E r \in Reqs : GenerateAttemptDone(r, GenOutcomes)
  \/ Sweep
  \/ Tick

SpecGen == Init /\ [][NextGen]_vars

(***************************************************************************)
(* The generation route over the slide counts, within one cache duration.  *)
(***************************************************************************)
FallbackOutcomes ==
  {NetworkError, HttpError, Content(TxtSlidesEmpty), Content(TxtDeck)}

NextFallback ==
  \/ \E r \in Reqs : GeneratePresentation(r, {FormData(sc) : sc \in SlideCounts})
  \/ \E r \in Reqs : GenerateAttemptDone(r, FallbackOutcomes)

SpecFallback == Init /\ [][NextFallback]_vars

(***************************************************************************)
(* The enhance-slide route over contents of every shape and every          *)
(* enhancement outcome.                                                    *)
(***************************************************************************)
NextEnhance ==
  \/ \E r \in Reqs : EnhanceSlide(r, EnhanceBodies)
  \/ \E r \in Reqs : EnhanceSlideDone(r, EnhOutcomes)

SpecEnhance == Init /\ [][NextEnhance]_vars

(***************************************************************************)
(* The enhance-slide route around the acceptance threshold: a content of   *)
(* 20 characters without markup, and texts of 16 and of 15.                *)
(***************************************************************************)
TwentyChars == <<"<p>">> \o Words(<<"Our", "products", "roadmap">>) \o <<"</p>">>
EnhSixteen == Words(<<"Plan", "and", "roadmap">>)
EnhFifteen == Words(<<"Plan", "or", "roadmap">>)

ThresholdBodies ==
  {SlideBody(<<"Roadmap">>, c) : c \in {TwentyChars, ShortContent, FifteenWords}}
ThresholdOutcomes ==
  {NetworkError} \cup {Content(t) : t \in {EnhSixteen, EnhFifteen, EnhStructured, EnhTiny}}

NextThreshold ==
  \/ \E r \in Reqs : EnhanceSlide(r, ThresholdBodies)
  \/ \E r \in Reqs : EnhanceSlideDone(r, ThresholdOutcomes)

SpecThreshold == Init /\ [][NextThreshold]_vars

(***************************************************************************)
(* The speaker-notes route beside the generation route, which fills the    *)
(* cache.                                                                  *)
(***************************************************************************)
NotesGenOutcomes == {NetworkError, Content(TxtDeck)}

NextNotes ==
  \/ \E r \in Reqs : GeneratePresentation(r, {FormData(Num(2))})
  \/ \E r \in Reqs : GenerateAttemptDone(r, NotesGenOutcomes)
  \/ \E r \in Reqs : GenerateSpeakerNotes(r, EnhBodies)
  \/ \E r \in Reqs : SpeakerNotesDone(r, NotesOutcomes)

SpecNotes == Init /\ [][NextNotes]_vars

(***************************************************************************)
(* The three validating routes over bodies with each required field        *)
(* missing in turn, beside valid requests that fill the cache.             *)
(***************************************************************************)
Without(body, f) == Obj([k \in DOMAIN body.o \ {f} |-> body.o[k]])

RequiredFields == {"topic", "audience", "slideCount", "duration"}
ValidationForms ==
  {Without(FormData(Num(2)), f) : f \in RequiredFields} \cup {FormData(Num(2))}
ValidationSlides ==
  {Without(SlideBody(<<"Roadmap">>, ShortContent), f) : f \in {"title", "content"}}
    \cup {SlideBody(<<"Roadmap">>, ShortContent)}

NextValidation ==
  \/ \E r \in Reqs : GeneratePresentation(r, ValidationForms)
  \/ \E r \in Reqs : GenerateAttemptDone(r, NotesGenOutcomes)
  \/ \E r \in Reqs : GenerateAndEnhance(r, ValidationForms)
  \/ \E r \in Reqs : BaseAttemptDone(r, NotesGenOutcomes)
  \/ \E r \in Reqs : SlideEnhanceDone(r, ServerSlideOutcomes)
  \/ \E r \in Reqs : EnhanceSlide(r, ValidationSlides)
  \/ \E r \in Reqs : EnhanceSlideDone(r, {HttpError})

SpecValidation == Init /\ [][NextValidation]_vars

(***************************************************************************)
(* The combined route beside the generation route, for one form: both      *)
(* routes use the plain fingerprint, the combined route the suffixed one   *)
(* too.                                                                    *)
(***************************************************************************)
CombinedGenOutcomes == {NetworkError, Content(TxtOdd), Content(TxtDeck)}
CombinedSlideOutcomes == {NetworkError, Content(EnhStructured), Content(EnhTiny)}

NextCombined ==
  \/ \E r \in Reqs : GeneratePresentation(r, {FormData(Num(2))})
  \/ \E r \in Reqs : GenerateAttemptDone(r, CombinedGenOutcomes)
  \/ \E r \in Reqs : GenerateAndEnhance(r, {FormData(Num(2))})
  \/ \E r \in Reqs : BaseAttemptDone(r, CombinedGenOutcomes)
  \/ \E r \in Reqs : SlideEnhanceDone(r, CombinedSlideOutcomes)

SpecCombined == Init /\ [][NextCombined]_vars

(***************************************************************************)
(* The batch route over slide lists of every length up to MaxBatch, a list *)
(* with a slide that has no content, and a body without slides.            *)
(***************************************************************************)
BatchSlide(k) ==
  Obj([title |-> Str(Words(<<"Slide", ToString(k)>>)),
       content |-> Str(<<"<p>">> \o Words(<<"Point", ToString(k)>>) \o <<"</p>">>),
       type |-> Str(<<"content">>)])
BatchList(n) == Obj([slides |-> Arr([k \in 1..n |-> BatchSlide(k)])])
NoContentList ==
  Obj([slides |-> Arr(<<BatchSlide(1), Obj([title |-> Str(<<"Agenda">>)])>>)])

BatchBodies ==
  {BatchList(n) : n \in 0..MaxBatch}
    \cup {NoContentList, Obj([title |-> Str(<<"Roadmap">>)])}
BatchCallOutcomes == {NetworkError, Content(TxtProse), Content(TxtDeck)}

NextBatch ==
  \/ \E r \in Reqs : EnhanceAllSlides(r, BatchBodies)
  \/ \E r \in Reqs : EnhanceAllDone(r, BatchCallOutcomes)

SpecBatch == Init /\ [][NextBatch]_vars

(***************************************************************************)
(* The generation route falling back at different times, for forms that    *)
(* agree on topic, audience and slideCount and differ in the other fields. *)
(***************************************************************************)
FormWith(slideCount, duration, info) ==
  Obj([topic |-> Topic, audience |-> Audience, slideCount |-> slideCount,
       duration |-> duration, additionalInfo |-> info])

SynthForms ==
  {FormData(Num(3)), FormWith(Num(3), Num(45), Str(<<"notes">>)),
   FormWith(Num(4), Num(30), Str(<<>>))}
SynthOutcomes == {NetworkError, Content(TxtSlidesEmpty)}

NextSynth ==
  \/ \E r \in Reqs : GeneratePresentation(r, SynthForms)
  \/ \E r \in Reqs : GenerateAttemptDone(r, SynthOutcomes)
  \/ Sweep
  \/ Tick

SpecSynth == Init /\ [][NextSynth]_vars

(***************************************************************************)
(* The generation route over forms that differ from one form in one field  *)
(* at a time, one of them a field the fingerprint leaves out.              *)
(***************************************************************************)
With(body, f, v) == Obj([k \in DOMAIN body.o \cup {f} |-> IF k = f THEN v ELSE body.o[k]])

KeyForms ==
  LET base == FormData(Num(3))
      noted == With(base, "additionalInfo", Str(<<"notes">>))
  IN {base, noted,
      With(base, "additionalInfo", Str(<<>>)),
      With(With(base, "additionalInfo", Str(<<>>)), "traceId", Str(<<"t3">>)),
      With(base, "traceId", Str(<<"t1">>)),
      With(noted, "traceId", Str(<<"t2">>)),
      With(base, "topic", Str(<<"Oceans">>)),
      With(base, "audience", Str(<<"students">>)),
      With(base, "slideCount", Num(4)),
      With(base, "slideCount", Str(<<"3">>)),
      With(base, "duration", Num(45)),
      With(noted, "duration", Num(45))}
KeyOutcomes == {NetworkError, Content(TxtDeck)}

NextKey ==
  \/ \E r \in Reqs : GeneratePresentation(r, KeyForms)
  \/ \E r \in Reqs : GenerateAttemptDone(r, KeyOutcomes)

SpecKey == Init /\ [][NextKey]_vars

(***************************************************************************)
(* Both generation routes for one form, with the sweep and the clock:      *)
(* entries are written, age, expire and are overwritten.                   *)
(***************************************************************************)
WriteOutcomes == {NetworkError, Content(TxtDeck)}

NextWrite ==
  \/ \E r \in Reqs : GeneratePresentation(r, {FormData(Num(2))})
  \/ \E r \in Reqs : GenerateAttemptDone(r, WriteOutcomes)
  \/ \E r \in Reqs : GenerateAndEnhance(r, {FormData(Num(2))})
  \/ \E r \in Reqs : BaseAttemptDone(r, WriteOutcomes)
  \/ \E r \in Reqs : SlideEnhanceDone(r, {HttpError})
  \/ Sweep
  \/ Tick

SpecWrite == Init /\ [][NextWrite]_vars

(***************************************************************************)
(* The four absorbing routes with every upstream call settling in the end: *)
(* the handler suspended on a call is resumed, with whatever outcome.      *)
(***************************************************************************)
LiveGenOutcomes == {NetworkError, Content(TxtProse), Content(TxtDeck)}

NextLive ==
  \/ \E r \in Reqs : GeneratePresentation(r, {FormData(Num(2))})
  \/ \E r \in Reqs : GenerateAttemptDone(r, LiveGenOutcomes)
  \/ \E r \in Reqs : GenerateAndEnhance(r, {FormData(Num(2))})
  \/ \E r \in Reqs : BaseAttemptDone(r, LiveGenOutcomes)
  \/ \E r \in Reqs : SlideEnhanceDone(r, ServerSlideOutcomes)
  \/ \E r \in Reqs : EnhanceSlide(r, EnhBodies)
  \/ \E r \in Reqs : EnhanceSlideDone(r, ServerEnhOutcomes)
  \/ \E r \in Reqs : EnhanceAllSlides(r, ServerBatches)
  \/ \E r \in Reqs : EnhanceAllDone(r, ServerBatchOutcomes)

\* The handler of request r resumes from the upstream call it is suspended
\* on.
Resume(r) ==
  \/ GenerateAttemptDone(r, LiveGenOutcomes)
  \/ BaseAttemptDone(r, LiveGenOutcomes)
  \/ SlideEnhanceDone(r, ServerSlideOutcomes)
  \/ EnhanceSlideDone(r, ServerEnhOutcomes)
  \/ EnhanceAllDone(r, ServerBatchOutcomes)

CallsSettle == \A r \in Reqs : WF_vars(Resume(r))

SpecLive == Init /\ [][NextLive]_vars /\ CallsSettle

(***************************************************************************)
(* The enhancer called by its own route and by the per-slide loop of the   *)
(* combined route, over base presentations from the upstream model and     *)
(* from the fallback synthesizer.                                          *)
(***************************************************************************)
OnceBodies ==
  {SlideBody(<<"Roadmap">>, ShortContent),
   SlideBody(<<"Roadmap">>, FifteenWords),
   Obj([title |-> Str(<<"Roadmap">>), content |-> Num(5)])}

NextOnce ==
  \/ \E r \in Reqs : GenerateAndEnhance(r, {FormData(Num(2))})
  \/ \E r \in Reqs : BaseAttemptDone(r, CombinedGenOutcomes)
  \/ \E r \in Reqs : SlideEnhanceDone(r, CombinedSlideOutcomes)
  \/ \E r \in Reqs : EnhanceSlide(r, OnceBodies)
  \/ \E r \in Reqs : EnhanceSlideDone(r, CombinedSlideOutcomes)

SpecOnce == Init /\ [][NextOnce]_vars

(***************************************************************************)
(* The enhance-slide route over contents of 15 words and more, with and    *)
(* without headings and lists.                                             *)
(***************************************************************************)
PlainSentence ==
  Words(<<"We", "ship", "three", "big", "releases", "this", "year", "and", "each",
          "adds", "one", "platform", "for", "our", "teams">>)
BulletedContent ==
  <<"<p>">> \o Words(<<"We", "ship", "three", "big", "releases", "this", "year">>)
    \o <<"</p>", "\n", "<ul>", "<li>">>
    \o Words(<<"Each", "release", "adds", "one", "platform">>)
    \o <<"</li>", "\n", "<li>">>
    \o Words(<<"for", "our", "teams">>) \o <<"</li>", "</ul>">>
NumberedContent ==
  <<"<ol>", "<li>">>
    \o Words(<<"We", "ship", "three", "big", "releases", "this", "year">>)
    \o <<".", "</li>", "\n", "<li>">>
    \o Words(<<"Each", "release", "adds", "one", "platform", "for", "our", "teams">>)
    \o <<".", "</li>", "</ol>">>
TopHeadedContent ==
  <<"<h1>">> \o Words(<<"Our", "plan">>) \o <<"</h1>", "\n", "<p>">>
    \o PlainSentence \o <<"</p>">>
SubHeadedContent ==
  <<"<h2>">> \o Words(<<"Our", "plan">>) \o <<"</h2>", "\n", "<p>">>
    \o PlainSentence \o <<"</p>">>

StructureBodies ==
  {SlideBody(<<"Roadmap">>, c) :
     c \in {FifteenWords, PlainSentence, BulletedContent, NumberedContent,
            TopHeadedContent, SubHeadedContent}}

NextStructure ==
  \/ \E r \in Reqs : EnhanceSlide(r, StructureBodies)
  \/ \E r \in Reqs : EnhanceSlideDone(r, {NetworkError, Content(EnhTiny)})

SpecStructure == Init /\ [][NextStructure]_vars

(***************************************************************************)
(* The generation route beside the combined route for one form, with one   *)
(* upstream outcome of each kind: the two copies of the generation         *)
(* pipeline run on the same inputs.                                        *)
(***************************************************************************)
TwinOutcomes == {NetworkError, Content(TxtProse), Content(TxtDeck)}

NextTwin ==
  \/ \E r \in Reqs : GeneratePresentation(r, {FormData(Num(2))})
  \/ \E r \in Reqs : GenerateAttemptDone(r, TwinOutcomes)
  \/ \E r \in Reqs : GenerateAndEnhance(r, {FormData(Num(2))})
  \/ \E r \in Reqs : BaseAttemptDone(r, TwinOutcomes)
  \/ \E r \in Reqs : SlideEnhanceDone(r, {HttpError})

SpecTwin == Init /\ [][NextTwin]_vars

(***************************************************************************)
(* Properties.                                                             *)
(***************************************************************************)
GenRoute == "generate-presentation"
CombinedRoute == "generate-and-enhance-presentation"

Done(r) == reqs[r].pc = "done"
Last(seq) == seq[Len(seq)]
AllErrors(q) == \A i \in 1..Len(q.outcomes) : q.outcomes[i] = "error"
SlidesOf(v) == Get(v, "slides").a

\* C1: a generate-presentation request that missed the cache and whose
\* upstream calls have all thrown has made one call per failure so far plus
\* the one in flight, never more than 3; it has responded exactly when 3
\* calls have failed, and then with the fallback presentation.
C1_ThreeCallsThenFallback ==
  \A r \in Reqs :
    LET q == reqs[r]
    IN (q.route = GenRoute /\ q.attempts > 0 /\ AllErrors(q)) =>
         /\ q.calls = Len(q.outcomes) + (IF q.pc = "await" THEN 1 ELSE 0)
         /\ q.calls <= 3
         /\ (q.pc = "done" <=> Len(q.outcomes) = 3)
         /\ (q.pc = "done" =>
               /\ q.status = 200
               /\ q.response = createFallbackPresentation(q.body))

C1_Witness ==
  \E r \in Reqs :
    /\ reqs[r].route = GenRoute /\ Done(r)
    /\ reqs[r].outcomes = <<"error", "error", "error">>
    /\ reqs[r].calls = 3

\* The request whose computation a generate-presentation response comes
\* from: the writer of the entry served, or the request itself.
Origin(r) == IF reqs[r].hit = "route" THEN reqs[r].from ELSE r
MadeFallback(w) == reqs[w].outcomes # <<>> /\ Last(reqs[w].outcomes) # "valid"
GenAnswered(r) == reqs[r].route = GenRoute /\ Done(r) /\ reqs[r].status = 200

\* C3 as stated: every presentation generate-presentation returns has a
\* non-empty slides list whose first slide has type "title".
C3_FirstSlideIsTitle ==
  \A r \in Reqs :
    GenAnswered(r) =>
      /\ Len(SlidesOf(reqs[r].response)) > 0
      /\ Prop(SlidesOf(reqs[r].response)[1], "type") = Str(<<"title">>)

\* C3 as amended: every presentation generate-presentation returns is an
\* object with a non-empty slides array, and its first slide has type
\* "title" when it is a fallback presentation, computed by the request or
\* served from the entry another request's fallback left in the cache.
C3_NonEmptyAndFallbackTitled ==
  \A r \in Reqs :
    GenAnswered(r) =>
      /\ reqs[r].response.t = "object"
      /\ Get(reqs[r].response, "slides").t = "array"
      /\ Len(SlidesOf(reqs[r].response)) > 0
      /\ MadeFallback(Origin(r)) =>
           Prop(SlidesOf(reqs[r].response)[1], "type") = Str(<<"title">>)

C3_Witness ==
  \E r \in Reqs :
    /\ GenAnswered(r) /\ reqs[r].hit = "route"
    /\ MadeFallback(reqs[r].from)
    /\ Prop(SlidesOf(reqs[r].response)[1], "type") = Str(<<"title">>)

SameFingerprint(a, b) == createCacheKey(reqs[a].body) = createCacheKey(reqs[b].body)

\* C4 as stated: two generate-presentation calls with the same fields, both
\* within one cache duration, return identical results and make at most one
\* upstream call between them.
C4_AtMostOneUpstreamCall ==
  \A a, b \in Reqs :
    (a # b /\ GenAnswered(a) /\ GenAnswered(b) /\ SameFingerprint(a, b)
       /\ now < CACHE_DURATION) =>
      /\ reqs[a].response = reqs[b].response
      /\ reqs[a].calls + reqs[b].calls <= 1

\* C4 as amended: a generate-presentation call that arrives while the entry
\* another call with the same fields wrote is under the fingerprint and
\* younger than the cache duration responds at once with that call's result
\* and makes no upstream call; the two calls together make at most 3.
C4_SecondServedFromFirst ==
  \A a, b \in Reqs :
    (a # b /\ reqs[a].route = GenRoute /\ reqs[b].route = GenRoute
       /\ reqs[b].from = a) =>
      /\ Done(a) /\ Done(b) /\ SameFingerprint(a, b)
      /\ reqs[b].hit = "route"
      /\ reqs[b].calls = 0
      /\ reqs[b].response = reqs[a].response
      /\ reqs[a].calls + reqs[b].calls <= 3

C4_Witness ==
  \E a, b \in Reqs :
    /\ a # b /\ GenAnswered(a) /\ GenAnswered(b)
    /\ reqs[b].from = a /\ reqs[b].calls = 0 /\ reqs[a].calls = 3
    /\ reqs[b].response = reqs[a].response

\* C5: a generate-presentation request, or generateBasePresentation inside
\* the combined route, that finds under its fingerprint an entry older than
\* the cache duration is not served by that cache check and makes a
\* generation call.
C5_StaleEntryNotServed ==
  \A r \in Reqs :
    LET q == reqs[r]
    IN /\ (q.route = GenRoute /\ "route" \in q.stale) =>
            (q.hit = "none" /\ q.attempts >= 1 /\ q.calls >= 1)
       /\ (q.route = CombinedRoute /\ "base" \in q.stale) =>
            (q.hit = "none" /\ q.attempts >= 1 /\ q.calls >= 1)

C5_Witness ==
  \E r \in Reqs :
    /\ GenAnswered(r) /\ "route" \in reqs[r].stale
    /\ reqs[r].hit = "none" /\ reqs[r].calls >= 1

Generates(q) == q.route \in {GenRoute, CombinedRoute} /\ q.outcomes # <<>>
Unusable == {"malformed", "invalid"}

\* The presentation the retry loop of a request ended with.
Built(q) == IF q.route = GenRoute THEN q.response ELSE q.base

AbsorbingRoutes ==
  {GenRoute, CombinedRoute, "enhance-slide", "enhance-all-slides"}

\* A request the route's own validation accepts and whose slide content, on
\* the enhance-slide route, is text.
ValidRequest(q) ==
  CASE q.route \in {GenRoute, CombinedRoute} -> ~MissingFields(q.body)
    [] q.route = "enhance-slide" ->
         ~MissingTitleOrContent(q.body) /\ IsString(Get(q.body, "content"))
    [] q.route = "enhance-all-slides" -> ~MissingSlides(q.body)
    [] OTHER -> FALSE

BuiltFallback(r) == GenAnswered(r) /\ reqs[r].hit = "none" /\ MadeFallback(r)
SlideCountOf(r) == Get(reqs[r].body, "slideCount")
TypesOf(slides) == [i \in 1..Len(slides) |-> Prop(slides[i], "type")]

\* C7: the fallback presentation built for a request has exactly slideCount
\* slides for every integer slideCount >= 2, and exactly the title slide and
\* the conclusion slide for every integer slideCount < 2.
C7_FallbackSlideCount ==
  \A r \in Reqs :
    (BuiltFallback(r) /\ SlideCountOf(r).t = "number") =>
      LET n == SlideCountOf(r).n
          slides == SlidesOf(reqs[r].response)
      IN /\ n >= 2 => Len(slides) = n
         /\ n < 2 => TypesOf(slides) = <<Str(<<"title">>), Str(<<"conclusion">>)>>

C7_Witness ==
  \E a, b \in Reqs :
    /\ BuiltFallback(a) /\ SlideCountOf(a) = Num(4)
    /\ Len(SlidesOf(reqs[a].response)) = 4
    /\ BuiltFallback(b) /\ SlideCountOf(b) = Num(1)
    /\ Len(SlidesOf(reqs[b].response)) = 2

KeyPoint(k) == Str(<<"Key", " ", "Point", " ", ToString(k)>>)

\* C8: with an upstream that has failed every call, generate-presentation
\* for slideCount n >= 2 returns n slides: slide 1 has the topic as title and
\* type "title", slides 2..n-1 have type "content" and titles "Key Point 1"
\* to "Key Point n-2" in order, slide n has title "Thank You" and type
\* "conclusion".
C8_FallbackShape ==
  \A r \in Reqs :
    (GenAnswered(r) /\ ~upstreamOk /\ SlideCountOf(r).t = "number"
       /\ SlideCountOf(r).n >= 2) =>
      LET n == SlideCountOf(r).n
          slides == SlidesOf(reqs[r].response)
      IN /\ Len(slides) = n
         /\ Prop(slides[1], "title") = Get(reqs[r].body, "topic")
         /\ Prop(slides[1], "type") = Str(<<"title">>)
         /\ \A i \in 2..(n - 1) :
              /\ Prop(slides[i], "type") = Str(<<"content">>)
              /\ Prop(slides[i], "title") = KeyPoint(i - 1)
         /\ Prop(slides[n], "title") = Str(<<"Thank", " ", "You">>)
         /\ Prop(slides[n], "type") = Str(<<"conclusion">>)

C8_Witness ==
  \E r \in Reqs :
    /\ GenAnswered(r) /\ ~upstreamOk /\ SlideCountOf(r) = Num(5)
    /\ reqs[r].calls = 3
    /\ TypesOf(SlidesOf(reqs[r].response))
         = <<Str(<<"title">>), Str(<<"content">>), Str(<<"content">>),
             Str(<<"content">>), Str(<<"conclusion">>)>>

\* C9: enhance-all-slides called with a slides list answers with exactly
\* that list whenever the batch fails: when the upstream call throws, and
\* when the upstream text is not a usable slides document.
C9_OriginalSlidesOnFailure ==
  \A r \in Reqs :
    LET q == reqs[r]
    IN (q.route = "enhance-all-slides" /\ q.pc = "done" /\ ~MissingSlides(q.body)
          /\ q.outcomes # <<>> /\ Last(q.outcomes) # "valid") =>
         (q.status = 200 /\ q.response = OriginalSlides(q.body))

HasHeading(s) == Includes(s, "<h1>") \/ Includes(s, "<h2>") \/ Includes(s, "<h3>")
HasList(s) == Includes(s, "<ul>") \/ Includes(s, "<ol>")

\* An enhance-slide request answered for a content of fewer words than the
\* low-word-count threshold.
ShortAnswered(r) ==
  /\ reqs[r].route = "enhance-slide" /\ Done(r) /\ reqs[r].status = 200
  /\ WordCount(Get(reqs[r].body, "content").s) < 15
Answer(r) == Get(reqs[r].response, "content").s

\* C10 as stated: enhance-slide for a content below the low-word-count
\* threshold returns content with at least one heading and at least one
\* list, when the upstream call fails and when it succeeds with any text.
C10_HeadingAndListAlways ==
  \A r \in Reqs : ShortAnswered(r) => (HasHeading(Answer(r)) /\ HasList(Answer(r)))

\* The upstream call of the request threw, or the text it returned, once
\* cleaned and stripped of markup, is shorter than 80% of the stripped
\* original content.
Rejected(r) ==
  LET o == reqs[r].last
  IN \/ callThrows(o)
     \/ 10 * StrLen(Trim(StripTags(CleanContent(callReturn(o).s))))
          < 8 * StrLen(Trim(StripTags(Get(reqs[r].body, "content").s)))

\* C10 as amended: enhance-slide for a content below the low-word-count
\* threshold returns content with at least one heading and at least one
\* list when the upstream call fails or its text is rejected as too short;
\* when the upstream text is accepted the response is that text, cleaned,
\* whatever its structure.
C10_HeadingAndListOnFallback ==
  \A r \in Reqs :
    ShortAnswered(r) =>
      /\ Rejected(r) => (HasHeading(Answer(r)) /\ HasList(Answer(r)))
      /\ ~Rejected(r) => Answer(r) = CleanContent(callReturn(reqs[r].last).s)

C10_Witness ==
  \E a, b \in Reqs :
    /\ ShortAnswered(a) /\ callThrows(reqs[a].last)
    /\ HasHeading(Answer(a)) /\ HasList(Answer(a))
    /\ ShortAnswered(b) /\ ~callThrows(reqs[b].last) /\ Rejected(b)
    /\ HasHeading(Answer(b)) /\ HasList(Answer(b))

EnhanceAnswered(r) ==
  reqs[r].route = "enhance-slide" /\ Done(r) /\ reqs[r].status = 200

\* The upstream call of the request returned a text whose length, cleaned
\* and stripped of markup, is at least 80% of the stripped length of the
\* original content.
Accepted(r) ==
  LET o == reqs[r].last
  IN /\ ~callThrows(o)
     /\ 10 * StrLen(Trim(StripTags(CleanContent(callReturn(o).s))))
          >= 8 * StrLen(Trim(StripTags(Get(reqs[r].body, "content").s)))

\* C11: enhance-slide answers with the cleaned upstream text exactly when
\* the upstream call succeeded and the stripped length of that text is at
\* least 80% of the stripped length of the original content
\* (10 * enhanced >= 8 * original); in every other case it answers with the
\* structural fallback computed from the original title and content.
C11_AcceptedIffLongEnough ==
  \A r \in Reqs :
    EnhanceAnswered(r) =>
      LET q == reqs[r]
      IN /\ Accepted(r) => Answer(r) = CleanContent(callReturn(q.last).s)
         /\ ~Accepted(r) =>
              Answer(r) = createStructuredEnhancement(Get(q.body, "title"),
                                                      Get(q.body, "content").s)

C11_Witness ==
  \E a, b \in Reqs :
    /\ EnhanceAnswered(a) /\ Get(reqs[a].body, "content") = Str(TwentyChars)
    /\ reqs[a].last = Content(EnhSixteen)
    /\ Answer(a) = <<"<p>">> \o EnhSixteen \o <<"</p>">>
    /\ EnhanceAnswered(b) /\ Get(reqs[b].body, "content") = Str(TwentyChars)
    /\ reqs[b].last = Content(EnhFifteen)
    /\ HasList(Answer(b)) /\ Answer(b) # <<"<p>">> \o EnhFifteen \o <<"</p>">>

NotesRoute == "generate-speaker-notes"

\* What holds of a speaker-notes request in a state: one call once it has
\* passed validation, a server error if that call threw, the returned text
\* otherwise.
NotesOneCall(r) ==
  LET q == reqs[r]
  IN (q.route = NotesRoute /\ ~MissingTitleOrContent(q.body)) =>
       /\ q.calls = 1
       /\ q.pc \in {"await", "done"}
       /\ (q.pc = "done" /\ callThrows(q.last)) =>
            (q.status = 500 /\ Prop(q.response, "notes") = Undefined
               /\ Prop(q.response, "error") # Undefined)
       /\ (q.pc = "done" /\ ~callThrows(q.last)) =>
            (q.status = 200 /\ q.response = Obj([notes |-> callReturn(q.last)]))

\* C12: a valid speaker-notes request makes exactly one upstream call; if
\* the call fails the caller receives a server error, with no retry and no
\* synthesized notes; and no step of a speaker-notes request changes the
\* cache.
C12_OneCallNoFallbackNoCache ==
  /\ [](\A r \in Reqs : NotesOneCall(r))
  /\ [][\A r \in Reqs :
          (reqs'[r] # reqs[r] /\ reqs'[r].route = NotesRoute) =>
            requestCache' = requestCache]_vars

C12_Witness ==
  \E r \in Reqs :
    /\ reqs[r].route = NotesRoute /\ Done(r) /\ callThrows(reqs[r].last)
    /\ reqs[r].status = 500 /\ reqs[r].calls = 1
    /\ requestCache # <<>>

\* A request of a validating route with one of the route's required fields
\* absent from its body.
LacksField(q) ==
  \/ /\ q.route \in {GenRoute, CombinedRoute}
     /\ \E f \in {"topic", "audience", "slideCount", "duration"} :
          Get(q.body, f) = Undefined
  \/ /\ q.route = "enhance-slide"
     /\ \E f \in {"title", "content"} : Get(q.body, f) = Undefined

Rejects(r) ==
  LET q == reqs[r]
  IN LacksField(q) =>
       /\ q.pc = "done" /\ q.status = 400
       /\ Prop(q.response, "error") # Undefined
       /\ Prop(q.response, "slides") = Undefined
       /\ Prop(q.response, "content") = Undefined
       /\ q.calls = 0 /\ q.attempts = 0
       /\ \A k \in DOMAIN requestCache : requestCache[k].by # r

\* C13: a generate-presentation or generate-and-enhance-presentation
\* request with topic, audience, slideCount or duration missing, and an
\* enhance-slide request with title or content missing, ends with a
\* validation error, makes no upstream call, produces no fallback
\* presentation and leaves the cache as it was.
C13_MissingFieldRejected ==
  /\ [](\A r \in Reqs : Rejects(r))
  /\ [][\A r \in Reqs :
          (reqs'[r] # reqs[r] /\ LacksField(reqs'[r])) =>
            requestCache' = requestCache]_vars

C13_Witness ==
  \E a, b \in Reqs :
    /\ reqs[a].route = CombinedRoute /\ Get(reqs[a].body, "duration") = Undefined
    /\ reqs[a].status = 400
    /\ reqs[b].route = "enhance-slide" /\ Get(reqs[b].body, "title") = Undefined
    /\ reqs[b].status = 400

\* A combined request answered with a presentation it enhanced itself, from
\* the base presentation q.base.
EnhancedHere(r) ==
  /\ reqs[r].route = CombinedRoute /\ Done(r) /\ reqs[r].status = 200
  /\ reqs[r].hit # "route"
BaseSlides(r) == SlidesOf(reqs[r].base)
OutSlides(r) == SlidesOf(reqs[r].response)

\* C14 as stated: when the enhancement of a slide fails, by throwing or
\* because the upstream call made for the slide fails, the output slide
\* keeps the slide's original content and is marked autoEnhanced = false.
C14_FailedSlideKept ==
  \A r \in Reqs :
    EnhancedHere(r) =>
      /\ Len(OutSlides(r)) = Len(BaseSlides(r))
      /\ \A i \in 1..Len(BaseSlides(r)) :
           (SlideThrows(BaseSlides(r)[i]) \/ i \in reqs[r].slideErrors) =>
             /\ Prop(OutSlides(r)[i], "content") = Prop(BaseSlides(r)[i], "content")
             /\ Prop(OutSlides(r)[i], "autoEnhanced") = Bool(FALSE)

\* C14 as amended: a slide whose enhancement throws (the slide is null or
\* its content is no string) is kept with its original content and marked
\* autoEnhanced = false; a slide whose upstream call fails gets the
\* structural fallback of its title and content and is marked
\* autoEnhanced = true; in both cases every slide is processed and the
\* request answers with a presentation.
C14_ThrowingSlideKept ==
  \A r \in Reqs :
    EnhancedHere(r) =>
      /\ Len(OutSlides(r)) = Len(BaseSlides(r))
      /\ \A i \in 1..Len(BaseSlides(r)) :
           LET b == BaseSlides(r)[i]
               out == OutSlides(r)[i]
           IN /\ SlideThrows(b) =>
                   /\ Prop(out, "content") = Prop(b, "content")
                   /\ Prop(out, "autoEnhanced") = Bool(FALSE)
              /\ i \in reqs[r].slideErrors =>
                   /\ Prop(out, "content") =
                        Str(createStructuredEnhancement(Prop(b, "title"),
                                                        Prop(b, "content").s))
                   /\ Prop(out, "autoEnhanced") = Bool(TRUE)

C14_Witness ==
  \E r \in Reqs :
    /\ EnhancedHere(r) /\ Len(OutSlides(r)) = 2
    /\ SlideThrows(BaseSlides(r)[1])
    /\ Prop(OutSlides(r)[1], "autoEnhanced") = Bool(FALSE)
    /\ reqs[r].slideErrors = {2}
    /\ Prop(OutSlides(r)[2], "autoEnhanced") = Bool(TRUE)

CombinedAnswered(r) ==
  reqs[r].route = CombinedRoute /\ Done(r) /\ reqs[r].status = 200

\* The request that enhanced the presentation a combined request returns:
\* the writer of the entry served, or the request itself.
Enhancer(r) == IF reqs[r].hit = "route" THEN reqs[r].from ELSE r

\* C15: every presentation generate-and-enhance-presentation returns,
\* freshly computed or served from the cache, has an autoEnhanced flag on
\* every slide, and its slides have the same number, order, titles and
\* types as the base presentation it was built from.
C15_SlidesFollowBase ==
  \A r \in Reqs :
    CombinedAnswered(r) =>
      LET base == SlidesOf(reqs[Enhancer(r)].base)
          out == OutSlides(r)
      IN /\ Len(out) = Len(base)
         /\ \A i \in 1..Len(out) :
              /\ Prop(out[i], "autoEnhanced") \in {Bool(TRUE), Bool(FALSE)}
              /\ Prop(out[i], "title") = Prop(base[i], "title")
              /\ Prop(out[i], "type") = Prop(base[i], "type")

C15_Witness ==
  \E r \in Reqs :
    /\ CombinedAnswered(r) /\ reqs[r].hit = "route" /\ Enhancer(r) # r
    /\ Len(OutSlides(r)) = 2
    /\ Prop(OutSlides(r)[1], "autoEnhanced") = Bool(FALSE)
    /\ Prop(OutSlides(r)[2], "autoEnhanced") = Bool(TRUE)
    /\ Prop(OutSlides(r)[2], "title") = Str(<<"End">>)

\* A presentation the per-slide loop produced: flagged, with a flag on every
\* slide; and one it did not: no flag anywhere.
AutoEnhanced(p) ==
  /\ Prop(p, "autoEnhanced") = Bool(TRUE)
  /\ \A i \in 1..Len(SlidesOf(p)) : Prop(SlidesOf(p)[i], "autoEnhanced") # Undefined
NonEnhanced(p) ==
  /\ Prop(p, "autoEnhanced") = Undefined
  /\ \A i \in 1..Len(SlidesOf(p)) : Prop(SlidesOf(p)[i], "autoEnhanced") = Undefined

\* C16: in every reachable state, for the fields of any generation request,
\* the entry under the plain fingerprint is a non-enhanced presentation
\* and the entry under the suffixed fingerprint an auto-enhanced one;
\* generate-presentation never returns an auto-enhanced presentation and
\* generate-and-enhance-presentation never a non-enhanced one.
C16_NamespacesApart ==
  \A r \in Reqs :
    LET q == reqs[r]
    IN (q.route \in {GenRoute, CombinedRoute} /\ ~MissingFields(q.body)) =>
         /\ Has(createCacheKey(q.body)) =>
              NonEnhanced(requestCache[createCacheKey(q.body)].data)
         /\ Has(EnhancedKey(q.body)) =>
              AutoEnhanced(requestCache[EnhancedKey(q.body)].data)
         /\ GenAnswered(r) => NonEnhanced(q.response)
         /\ CombinedAnswered(r) => AutoEnhanced(q.response)

C16_Witness ==
  \E g, c \in Reqs :
    /\ GenAnswered(g) /\ reqs[g].hit = "route" /\ reqs[g].from = c
    /\ CombinedAnswered(c) /\ SameFingerprint(g, c)
    /\ Has(createCacheKey(reqs[c].body)) /\ Has(EnhancedKey(reqs[c].body))
    /\ NonEnhanced(reqs[g].response) /\ AutoEnhanced(reqs[c].response)

BatchRoute == "enhance-all-slides"

\* A body whose slides field is a list of slides with text content.
SlideList(body) ==
  /\ ~MissingSlides(body)
  /\ \A i \in 1..Len(SlidesOf(body)) :
       /\ SlidesOf(body)[i].t = "object"
       /\ IsString(Prop(SlidesOf(body)[i], "content"))

TitlesOf(slides) == [i \in 1..Len(slides) |-> Prop(slides[i], "title")]
SameInput(a, b) ==
  \A f \in {"topic", "audience", "slideCount"} :
    Get(reqs[a].body, f) = Get(reqs[b].body, f)

\* C18: two requests with the same topic, audience and slideCount that each
\* built a fallback presentation, at whatever times, with whatever cache
\* contents and whatever their other fields, got presentations with the
\* same number of slides, the same sequence of slide types and the same
\* sequence of titles.
C18_FallbackDeterministic ==
  \A a, b \in Reqs :
    (BuiltFallback(a) /\ BuiltFallback(b) /\ SameInput(a, b)) =>
      LET sa == SlidesOf(reqs[a].response)
          sb == SlidesOf(reqs[b].response)
      IN /\ Len(sa) = Len(sb)
         /\ TypesOf(sa) = TypesOf(sb)
         /\ TitlesOf(sa) = TitlesOf(sb)

C18_Witness ==
  \E a, b \in Reqs :
    /\ BuiltFallback(a) /\ BuiltFallback(b) /\ SameInput(a, b)
    /\ reqs[a].body # reqs[b].body
    /\ reqs[a].outcomes # reqs[b].outcomes
    /\ requestCache # <<>> /\ now > 0
    /\ TitlesOf(SlidesOf(reqs[a].response)) = TitlesOf(SlidesOf(reqs[b].response))

\* The five fields of a body the fingerprint is about, an absent
\* additionalInfo standing for the empty string.
Relevant(body) ==
  [f \in {"topic", "audience", "slideCount", "duration", "additionalInfo"} |->
     IF f = "additionalInfo" /\ Get(body, f) = Undefined THEN Str(<<>>)
     ELSE Get(body, f)]

\* C19: two generation requests have the same fingerprint exactly when
\* their topic, audience, slideCount, duration and additionalInfo agree, an
\* absent additionalInfo counting as the empty string; so requests that
\* differ only in another field share it, every cache entry sits under the
\* fingerprint of the request that wrote it, and a request is served only
\* from an entry whose writer agrees with it on the five fields.
C19_FingerprintIffFieldsAgree ==
  /\ \A a, b \in Reqs :
       (reqs[a].route = GenRoute /\ reqs[b].route = GenRoute) =>
         /\ SameFingerprint(a, b) <=> Relevant(reqs[a].body) = Relevant(reqs[b].body)
         /\ (reqs[b].hit = "route" /\ reqs[b].from = a) =>
              Relevant(reqs[a].body) = Relevant(reqs[b].body)
  /\ \A k \in DOMAIN requestCache :
       k = createCacheKey(reqs[requestCache[k].by].body)

C19_Witness ==
  \E a, b \in Reqs :
    /\ GenAnswered(a) /\ GenAnswered(b)
    /\ reqs[a].body # reqs[b].body
    /\ Get(reqs[a].body, "traceId") # Get(reqs[b].body, "traceId")
    /\ Get(reqs[a].body, "additionalInfo") = Undefined
    /\ Get(reqs[b].body, "additionalInfo") = Str(<<>>)
    /\ reqs[b].hit = "route" /\ reqs[b].from = a
    /\ SameFingerprint(a, b)

\* Request r ends its retry loop in this step: the generation route
\* responds, or generateBasePresentation returns into the per-slide loop.
LoopEnds(r) ==
  /\ reqs[r].route \in {GenRoute, CombinedRoute}
  /\ reqs[r].pc = "await" /\ reqs'[r].pc # "await"

\* Request b took its presentation from the plain entry request a wrote.
ServedFrom(b, a) ==
  \/ reqs[b].route = GenRoute /\ reqs[b].hit = "route" /\ reqs[b].from = a
  \/ reqs[b].route = CombinedRoute /\ reqs[b].hit = "base" /\ reqs[b].baseFrom = a

\* C20: when a generation request that missed the cache ends its loop, with
\* an AI-derived or a fallback presentation, the cache then holds under the
\* request's fingerprint exactly that presentation, stamped with the time
\* of that step, and the combined route stores its enhanced result the
\* same way under the suffixed fingerprint; a request served from an entry
\* a request wrote has that request's presentation, a fallback included,
\* and has made no generation call.
C20_WriteThrough ==
  /\ [][\A r \in Reqs :
          LoopEnds(r) =>
            LET k == createCacheKey(reqs[r].body)
            IN /\ k \in DOMAIN requestCache'
               /\ requestCache'[k].data = Built(reqs'[r])
               /\ requestCache'[k].timestamp = now'
               /\ requestCache'[k].by = r]_vars
  /\ [][\A r \in Reqs :
          (reqs[r].pc # "done" /\ reqs'[r].pc = "done" /\ reqs'[r].status = 200
             /\ reqs'[r].route = CombinedRoute /\ reqs'[r].hit # "route") =>
            LET k == EnhancedKey(reqs'[r].body)
            IN /\ k \in DOMAIN requestCache'
               /\ requestCache'[k] =
                    [data |-> reqs'[r].response, timestamp |-> now', by |-> r]]_vars
  /\ [](\A a, b \in Reqs :
          ServedFrom(b, a) =>
            /\ Built(reqs[b]) = Built(reqs[a])
            /\ reqs[b].attempts = 0 /\ reqs[b].outcomes = <<>>)

C20_Witness ==
  \E a, b \in Reqs :
    /\ ServedFrom(b, a) /\ reqs[a].route = CombinedRoute /\ reqs[b].route = GenRoute
    /\ MadeFallback(a) /\ now > 0
    /\ reqs[b].response = createFallbackPresentation(reqs[b].body)
    /\ reqs[b].calls = 0

\* The upstream calls of a request that have been issued and have neither
\* resolved nor failed yet.
InFlight(q) == q.calls - Len(q.outcomes)

\* C21: a generate-presentation request has at most one upstream call in
\* flight, and has one exactly while it is suspended; while it is suspended
\* its attempt counter is 1, 2 or 3 and counts its calls; a step that issues
\* a call issues one call, raises the counter by one, and finds every
\* earlier call of the request resolved or failed; the counter never changes
\* otherwise.
C21_AttemptsSequential ==
  /\ [](\A r \in Reqs :
          LET q == reqs[r]
          IN q.route = GenRoute =>
               /\ InFlight(q) \in {0, 1}
               /\ (InFlight(q) = 1) <=> (q.pc = "await")
               /\ q.attempts \in 0..MaxAttempts
               /\ q.pc = "await" => q.attempts \in 1..MaxAttempts
               /\ q.calls = q.attempts)
  /\ [][\A r \in Reqs :
          LET q == reqs[r]
              p == reqs'[r]
          IN p.route = GenRoute /\ (p.calls # q.calls \/ p.attempts # q.attempts) =>
               /\ p.calls = q.calls + 1
               /\ p.attempts = q.attempts + 1
               /\ Len(p.outcomes) = q.calls
               /\ p.pc = "await"]_vars

\* A request suspended on its third call after two calls have failed,
\* beside a request suspended on its second.
C21_Witness ==
  \E a, b \in Reqs :
    /\ a # b
    /\ reqs[a].route = GenRoute /\ reqs[a].pc = "await"
    /\ reqs[a].attempts = 3 /\ Len(reqs[a].outcomes) = 2
    /\ reqs[b].route = GenRoute /\ reqs[b].pc = "await"
    /\ reqs[b].attempts = 2 /\ Len(reqs[b].outcomes) = 1

\* The map cache once a sweep has run over it, and the cache check of the
\* handlers on a map.
SweptCache(cache) ==
  [k \in {j \in DOMAIN cache : ~Expired(cache[j])} |-> cache[k]]
FreshIn(cache, key) ==
  key \in DOMAIN cache /\ now - cache[key].timestamp < CACHE_DURATION

\* What a valid generation request does on arrival, told from the map cache
\* alone: p is the request as the arrival leaves it.
ArrivalOn(cache, p) ==
  LET key == createCacheKey(p.body)
      ekey == EnhancedKey(p.body)
  IN IF p.route = GenRoute
     THEN IF FreshIn(cache, key)
          THEN p.pc = "done" /\ p.response = cache[key].data /\ p.calls = 0
          ELSE p.pc = "await" /\ p.attempts = 1 /\ p.calls = 1
     ELSE IF FreshIn(cache, ekey)
          THEN p.pc = "done" /\ p.response = cache[ekey].data /\ p.calls = 0
          ELSE IF FreshIn(cache, key)
          THEN p.base = cache[key].data /\ p.attempts = 0 /\ p.calls <= 1
          ELSE p.pc = "await" /\ p.attempts = 1 /\ p.calls = 1

\* C22: a step that removes a cache entry removes exactly the entries older
\* than the cache duration, leaves every other entry as it was and touches
\* no request; no entry older than the cache duration passes a cache check;
\* and the handlers go by the swept cache alone: an arriving request is
\* served, or starts its calls, as the cache check on the swept cache says,
\* and a handler's step changes the swept cache only by the entries it
\* writes.
C22_SweepUnobservable ==
  /\ [](\A k \in DOMAIN requestCache :
          /\ Expired(requestCache[k]) => ~Fresh(k)
          /\ Fresh(k) => /\ k \in DOMAIN SweptCache(requestCache)
                         /\ SweptCache(requestCache)[k] = requestCache[k])
  /\ [][(DOMAIN requestCache' # DOMAIN requestCache
           /\ DOMAIN requestCache' \subseteq DOMAIN requestCache) =>
          /\ requestCache' = SweptCache(requestCache)
          /\ \A k \in DOMAIN requestCache \ DOMAIN requestCache' :
               requestCache[k].timestamp + CACHE_DURATION < now
          /\ \A k \in DOMAIN requestCache' :
               requestCache[k].timestamp + CACHE_DURATION >= now
          /\ reqs' = reqs /\ now' = now]_vars
  /\ [][\A r \in Reqs :
          (reqs[r].pc = "idle" /\ reqs'[r].pc # "idle" /\ reqs'[r].status # 400) =>
            ArrivalOn(SweptCache(requestCache), reqs'[r])]_vars
  /\ [][now' = now =>
          LET old == SweptCache(requestCache)
              new == SweptCache(requestCache')
          IN /\ DOMAIN old \subseteq DOMAIN new
             /\ \A k \in DOMAIN new :
                  \/ k \in DOMAIN old /\ new[k] = old[k]
                  \/ /\ new[k].timestamp = now
                     /\ reqs'[new[k].by] # reqs[new[k].by]
                     /\ new[k].data \in {Built(reqs'[new[k].by]),
                                        reqs'[new[k].by].response}]_vars

\* The cache has been swept empty after a request wrote to it, and a second
\* request, arriving later than the cache duration after the write, has
\* found nothing and is suspended on its first call.
C22_Witness ==
  \E a, b \in Reqs :
    /\ a # b
    /\ reqs[a].pc = "done" /\ reqs[a].status = 200 /\ reqs[a].hit = "none"
    /\ reqs[b].pc = "await" /\ reqs[b].calls = 1
    /\ reqs[b].stale = {} /\ reqs[b].from = 0
    /\ SameFingerprint(a, b)
    /\ requestCache = <<>>
    /\ now > CACHE_DURATION

\* The request has been received and has not responded.
Pending(r) == reqs[r].pc \notin {"idle", "done"}

SlideCalls(q) == q.calls - q.attempts
Callable(slides, n) == Cardinality({i \in 1..n : ~SlideThrows(slides[i])})

EnhanceRoute == "enhance-slide"

\* C24 as stated: every enhance-slide request that passes the route's
\* validation has made exactly one upstream call when it responds, and a
\* combined request that built its presentation has made exactly one
\* enhancement call for each slide of the base presentation, after at most
\* 3 generation calls.
C24_OneCallPerSlide ==
  \A r \in Reqs :
    LET q == reqs[r]
    IN /\ (q.route = EnhanceRoute /\ Done(r) /\ q.status # 400) => q.calls = 1
       /\ EnhancedHere(r) =>
            /\ q.attempts <= MaxAttempts
            /\ SlideCalls(q) = Len(BaseSlides(r))

\* C24 as amended: an enhance-slide request makes one upstream call and no
\* second one, and answers a thrown call with the structural fallback of
\* its title and content; it makes no call when its content is no string.
\* A combined request makes at most 3 generation calls, then one
\* enhancement call for each base slide that has a string content, none for
\* the others, and moves to the next slide whatever the call did.
C24_OneCallPerTextSlide ==
  /\ [](\A r \in Reqs :
          LET q == reqs[r]
          IN /\ q.route = EnhanceRoute =>
                  /\ q.calls <= 1
                  /\ (q.pc = "await") => q.calls = 1
                  /\ (Done(r) /\ q.status = 200) =>
                       /\ q.calls = 1
                       /\ callThrows(q.last) =>
                            Get(q.response, "content") =
                              Str(createStructuredEnhancement(Get(q.body, "title"),
                                                              Get(q.body, "content").s))
                  /\ (Done(r) /\ q.status # 200) => q.calls = 0
             /\ (q.route = CombinedRoute /\ q.pc = "awaitSlide") =>
                  /\ q.attempts <= MaxAttempts
                  /\ SlideCalls(q) = Callable(SlidesOf(q.base), Len(q.enhanced) + 1)
             /\ EnhancedHere(r) =>
                  /\ q.attempts <= MaxAttempts
                  /\ SlideCalls(q) = Callable(BaseSlides(r), Len(BaseSlides(r))))
  /\ [][\A r \in Reqs :
          (reqs[r].pc = "awaitSlide" /\ reqs'[r] # reqs[r]) =>
            \/ Done(r)'
            \/ /\ reqs'[r].pc = "awaitSlide"
               /\ Len(reqs'[r].enhanced) > Len(reqs[r].enhanced)
               /\ reqs'[r].calls = reqs[r].calls + 1]_vars

\* A combined request has answered after three generation calls and a
\* thrown enhancement call, a second after a base presentation whose first
\* slide has no content.
C24_Witness ==
  \E a, b \in Reqs :
    /\ EnhancedHere(a) /\ reqs[a].attempts = 3 /\ reqs[a].slideErrors # {}
    /\ SlideCalls(reqs[a]) = Len(BaseSlides(a))
    /\ EnhancedHere(b) /\ SlideThrows(BaseSlides(b)[1])
    /\ SlideCalls(reqs[b]) = Len(BaseSlides(b)) - 1

\* An enhance-slide request answered with the structural fallback for a
\* content at or above the low-word-count threshold.
LongFallback(r) ==
  /\ reqs[r].route = EnhanceRoute /\ Done(r) /\ reqs[r].status = 200
  /\ WordCount(Get(reqs[r].body, "content").s) >= LowWordCount
  /\ Rejected(r)

\* The markup the enhancer's analysis looks for: h1 or h2, ul or ol.
AnyHeading(s) == Includes(s, "<h1>") \/ Includes(s, "<h2>")
AnyList(s) == Includes(s, "<ul>") \/ Includes(s, "<ol>")

\* C25: the structural fallback, for a content at or above the
\* low-word-count threshold, returns a content that has a heading (h1, h2)
\* or a list (ul, ol) with its markup intact, behind a new heading only
\* when it has none; it splits into sentences only a content with no
\* heading and no list, the first sentence becoming the introductory
\* paragraph and the others the bullet items.
C25_MarkupKept ==
  \A r \in Reqs :
    LongFallback(r) =>
      LET title == Get(reqs[r].body, "title")
          c == Get(reqs[r].body, "content").s
      IN IF AnyHeading(c) \/ AnyList(c)
         THEN Answer(r) = IF AnyHeading(c) THEN c
                          ELSE <<"<h2>">> \o ToStr(title) \o <<"</h2>">> \o c
         ELSE Len(Sentences(c)) > 1 =>
                Answer(r) =
                  <<"<h2>">> \o ToStr(title) \o <<"</h2>", "\n", "<p>">>
                    \o Trim(Sentences(c)[1]) \o <<".", "</p>", "\n", "<ul>", "\n">>
                    \o Details(Sentences(c)) \o <<"\n", "</ul>">>

\* The request is inside its generation loop, or past it.
InLoop(q) == q.pc = "await"
PastLoop(q) == q.hit = "none" /\ q.pc \in {"awaitSlide", "done"} /\ q.status # 400

\* The cache without the entry of the combined route.
Plain(cache, body) ==
  [k \in DOMAIN cache \ {EnhancedKey(body)} |-> cache[k]]

\* C26: a generate-presentation request and a generate-and-enhance
\* request with the same fields that both missed the cache and whose
\* upstream calls had the same outcomes are at the same attempt while in
\* their loops and, past them, have made the same number of generation
\* calls and hold the same presentation; on arrival both pipelines make the
\* same cache check (a fresh entry is returned with no call and no write);
\* and the step that ends either loop writes the presentation under the
\* fingerprint, stamped now, changing no other entry.
C26_PipelinesAgree ==
  /\ [](\A a, b \in Reqs :
          LET p == reqs[a]
              q == reqs[b]
          IN (/\ p.route = GenRoute /\ q.route = CombinedRoute
              /\ p.body = q.body
              /\ p.hit = "none" /\ q.hit = "none"
              /\ p.outcomes = q.outcomes /\ p.outcomes # <<>>) =>
                /\ InLoop(p) <=> InLoop(q)
                /\ PastLoop(p) <=> PastLoop(q)
                /\ p.attempts = q.attempts
                /\ PastLoop(p) => Built(p) = Built(q))
  /\ [][\A r \in Reqs :
          LET q == reqs[r]
              p == reqs'[r]
              key == createCacheKey(p.body)
          IN /\ (q.pc = "idle" /\ p.pc # "idle" /\ p.status # 400
                   /\ ~Fresh(EnhancedKey(p.body))) =>
                  /\ Fresh(key) =>
                       /\ Built(p) = requestCache[key].data
                       /\ p.attempts = 0 /\ p.outcomes = <<>>
                       /\ Plain(requestCache', p.body) = Plain(requestCache, p.body)
                  /\ ~Fresh(key) =>
                       /\ InLoop(p) /\ p.attempts = 1 /\ p.calls = 1
                       /\ requestCache' = requestCache
             /\ (InLoop(q) /\ ~InLoop(p)
                   /\ p.route \in {GenRoute, CombinedRoute}) =>
                  /\ Truthy(Built(p))
                  /\ Plain(requestCache', p.body) =
                       Plain(CacheSet(requestCache, key, Built(p), r), p.body)
             /\ (InLoop(q) /\ InLoop(p) /\ p # q
                   /\ p.route \in {GenRoute, CombinedRoute}) =>
                  requestCache' = requestCache]_vars

\* Two requests, one on each route, have both missed the cache and have
\* both ended their loops after two thrown errors and an unusable text.
C26_Witness ==
  \E a, b \in Reqs :
    /\ reqs[a].route = GenRoute /\ reqs[b].route = CombinedRoute
    /\ reqs[a].hit = "none" /\ reqs[b].hit = "none"
    /\ reqs[a].outcomes = <<"error", "error", "malformed">>
    /\ reqs[b].outcomes = reqs[a].outcomes
    /\ PastLoop(reqs[a]) /\ PastLoop(reqs[b])
    /\ Built(reqs[a]) = createFallbackPresentation(reqs[a].body)

\* The key of the cache check that served a request: the suffixed key for a
\* combined request served by its route, the fingerprint otherwise.
ServingKey(q) ==
  IF q.route = CombinedRoute /\ q.hit = "route"
  THEN EnhancedKey(q.body) ELSE createCacheKey(q.body)

\* The step is the arrival of request r.
ArrivalOf(r) == reqs[r].pc = "idle" /\ reqs'[r].pc # "idle"

\* C27: a request served by its route's cache check has made no upstream
\* call, got the data of an entry stored less than the cache duration
\* before, and its arrival leaves the whole cache as it was; a combined
\* request whose generateBasePresentation found a fresh entry makes no
\* generation call and leaves that entry as it was; and the store time of
\* an entry changes only when a request that was not served from it writes
\* it anew.  So an entry that has been read is no longer fresh once the
\* cache duration has passed since it was written.
C27_ReadsDoNotRefresh ==
  /\ [](\A r \in Reqs :
          reqs[r].hit = "route" =>
            /\ Done(r) /\ reqs[r].status = 200
            /\ reqs[r].calls = 0 /\ reqs[r].attempts = 0)
  /\ [][\A r \in Reqs :
          LET p == reqs'[r]
              k == ServingKey(p)
          IN /\ (ArrivalOf(r) /\ p.hit = "route") =>
                  /\ requestCache' = requestCache
                  /\ now - requestCache[k].timestamp < CACHE_DURATION
                  /\ p.response = requestCache[k].data
             /\ (ArrivalOf(r) /\ p.hit = "base") =>
                  /\ requestCache'[k] = requestCache[k]
                  /\ now - requestCache[k].timestamp < CACHE_DURATION
                  /\ p.base = requestCache[k].data
                  /\ p.attempts = 0 /\ p.outcomes = <<>>]_vars
  /\ [][\A k \in DOMAIN requestCache \cap DOMAIN requestCache' :
          requestCache'[k] # requestCache[k] =>
            LET w == reqs'[requestCache'[k].by]
            IN /\ requestCache'[k].timestamp = now
               /\ w.hit = "none" \/ (w.hit = "base" /\ k = EnhancedKey(w.body))
               /\ w.calls > 0]_vars

\* A request was served from the entry another request wrote, and the
\* entry, still the writer's, is no longer fresh, the cache duration having
\* passed since it was written.
C27_Witness ==
  \E a, b \in Reqs :
    /\ a # b
    /\ reqs[b].hit = "route" /\ reqs[b].from = a /\ reqs[b].calls = 0
    /\ Has(ServingKey(reqs[b]))
    /\ requestCache[ServingKey(reqs[b])].by = a
    /\ now - requestCache[ServingKey(reqs[b])].timestamp >= CACHE_DURATION
    /\ ~Fresh(ServingKey(reqs[b]))

\* A generate-presentation request that missed the cache and entered its
\* loop.
Missed(r) ==
  reqs[r].route = GenRoute /\ reqs[r].hit = "none" /\ reqs[r].attempts > 0

\* C28: of two generate-presentation requests with one fingerprint that
\* both missed the cache, each makes its own calls, at most 3, one for each
\* outcome it has had plus the one in flight, and answers with the result
\* of its own calls: the fallback when its last call threw or returned an
\* unusable text, the parsed document when its last call returned a usable
\* one.  A step of one request changes nothing of the other; the step that
\* answers writes the answer under the fingerprint over whatever is there,
\* so that once both have answered the entry is the answer of the one that
\* answered last.
C28_RacingRequestsIndependent ==
  /\ [](\A a, b \in Reqs :
          (a # b /\ Missed(a) /\ Missed(b) /\ SameFingerprint(a, b)) =>
            LET q == reqs[a]
                key == createCacheKey(q.body)
            IN /\ q.calls <= MaxAttempts
               /\ q.calls = Len(q.outcomes) + (IF q.pc = "await" THEN 1 ELSE 0)
               /\ (Done(a) /\ MadeFallback(a)) =>
                    q.response = createFallbackPresentation(q.body)
               /\ (Done(a) /\ ~MadeFallback(a)) =>
                    /\ q.response # createFallbackPresentation(q.body)
                    /\ ~InvalidStructure(q.response)
               /\ (Done(a) /\ Done(b) /\ Has(key)) =>
                    LET w == requestCache[key].by
                    IN /\ Missed(w) /\ Done(w) /\ SameFingerprint(w, a)
                       /\ requestCache[key].data = reqs[w].response)
  /\ [][\A a, b \in Reqs :
          (a # b /\ reqs'[a] # reqs[a]) =>
            /\ reqs'[b] = reqs[b]
            /\ (Missed(a) /\ Done(a)') =>
                 requestCache'[createCacheKey(reqs[a].body)] =
                   [data |-> reqs'[a].response, timestamp |-> now, by |-> a]]_vars

\* Both requests missed the cache before either wrote (no time has passed
\* and both ran their loops); the first answered with a document from the
\* upstream model, the second after three thrown errors, and the entry is
\* the second's fallback.
C28_Witness ==
  \E a, b \in Reqs :
    /\ a # b /\ now = 0
    /\ Missed(a) /\ Missed(b) /\ SameFingerprint(a, b)
    /\ Done(a) /\ Done(b)
    /\ Last(reqs[a].outcomes) = "valid"
    /\ reqs[b].outcomes = <<"error", "error", "error">>
    /\ reqs[a].response # reqs[b].response
    /\ requestCache[createCacheKey(reqs[b].body)].by = b
    /\ requestCache[createCacheKey(reqs[b].body)].data =
         createFallbackPresentation(reqs[b].body)

====
